---------------------------- MODULE Spec2Model ----------------------------
(***************************************************************************)
(* A model of the field extraction and reconciliation engine of            *)
(* COCQ-Management: src/src/extractor.py (extract_date, extract_data and   *)
(* their helpers) and src/src/utils.py (normalize_date,                    *)
(* expand_serial_ranges, clean_serial_number, is_serial_in_range), and of *)
(* the scans of src/src/app.py that feed the spreadsheet.                  *)
(*                                                                         *)
(* Python strings are modelled as sequences of one-character strings, so   *)
(* that substring tests, regular-expression searches, date parsing and     *)
(* joining are computed the way the code computes them.  Python's None is  *)
(* the value None; an exception that leaves a function is the value Exc.   *)
(***************************************************************************)
EXTENDS Integers, Sequences, FiniteSets, TLC

(***************************************************************************)
(* Characters and strings                                                  *)
(***************************************************************************)
None == <<"None">>

NL == "\n"

Digit == {"0", "1", "2", "3", "4", "5", "6", "7", "8", "9"}
UpperSeq ==
    << "A", "B", "C", "D", "E", "F", "G", "H", "I", "J", "K", "L", "M",
       "N", "O", "P", "Q", "R", "S", "T", "U", "V", "W", "X", "Y", "Z" >>
LowerSeq ==
    << "a", "b", "c", "d", "e", "f", "g", "h", "i", "j", "k", "l", "m",
       "n", "o", "p", "q", "r", "s", "t", "u", "v", "w", "x", "y", "z" >>
Upper == {UpperSeq[i] : i \in 1..26}
Lower == {LowerSeq[i] : i \in 1..26}
Alnum == Upper \cup Lower \cup Digit
Word == Alnum \cup {"_"}
Space == {" ", "\t", NL}

\* the characters of a string literal
Str(s) == [i \in 1..Len(s) |-> SubSeq(s, i, i)]

\* str.lower(): on one character, and on a string
LowerOf == [c \in Upper |-> LowerSeq[CHOOSE i \in 1..26 : UpperSeq[i] = c]]
LowerStr(s) == [i \in 1..Len(s) |-> IF s[i] \in Upper THEN LowerOf[s[i]] ELSE s[i]]

\* Python's  a in b  on strings
IsSubstr(a, b) ==
    \E i \in 0..(Len(b) - Len(a)) : SubSeq(b, i + 1, i + Len(a)) = a

\* str.strip()
RECURSIVE LStrip(_)
LStrip(s) ==
    IF s # <<>> /\ Head(s) \in Space THEN LStrip(Tail(s)) ELSE s
RECURSIVE RStrip(_)
RStrip(s) ==
    IF s # <<>> /\ s[Len(s)] \in Space THEN RStrip(SubSeq(s, 1, Len(s) - 1)) ELSE s
Strip(s) == RStrip(LStrip(s))

\* sep.join(list)
RECURSIVE Join(_, _)
Join(list, sep) ==
    IF list = <<>> THEN <<>>
    ELSE IF Len(list) = 1 THEN list[1]
    ELSE list[1] \o sep \o Join(Tail(list), sep)

\* str.split(sep) for a one-character separator
RECURSIVE SplitChar(_, _)
SplitChar(s, c) ==
    IF \A i \in 1..Len(s) : s[i] # c THEN <<s>>
    ELSE LET k == CHOOSE i \in 1..Len(s) : s[i] = c /\ \A j \in 1..(i - 1) : s[j] # c
         IN  <<SubSeq(s, 1, k - 1)>> \o SplitChar(SubSeq(s, k + 1, Len(s)), c)

\* int(digits) and str(n).zfill(w)
RECURSIVE ToInt(_)
ToInt(s) ==
    IF s = <<>> THEN 0
    ELSE 10 * ToInt(SubSeq(s, 1, Len(s) - 1))
         + (CHOOSE d \in 0..9 : ToString(d) = s[Len(s)])
RECURSIVE IntStr(_)
IntStr(n) ==
    IF n < 10 THEN <<ToString(n)>> ELSE IntStr(n \div 10) \o <<ToString(n % 10)>>
RECURSIVE ZFill(_, _)
ZFill(s, w) == IF Len(s) >= w THEN s ELSE ZFill(<<"0">> \o s, w)

\* the value of a function on its one argument: With([x \in {e} |-> F(x)]) is
\* F of e, computed first and once, as the code assigns e to a local variable x
With(f) == f[CHOOSE v \in DOMAIN f : TRUE]
\* the first k that f holds of, none when there is no such k: where a for loop
\* is left by its first return or break
FirstIn(f, none) ==
    IF \E k \in DOMAIN f : f[k]
    THEN CHOOSE k \in DOMAIN f : f[k] /\ \A j \in DOMAIN f : j < k => ~f[j]
    ELSE none
\* f[lo] \o ... \o f[hi]
RECURSIVE Flat(_, _, _)
Flat(f, lo, hi) ==
    IF lo > hi THEN <<>>
    ELSE IF lo = hi THEN f[lo]
    ELSE Flat(f, lo, (lo + hi) \div 2) \o Flat(f, (lo + hi) \div 2 + 1, hi)

(***************************************************************************)
(* Regular expressions, as Python's re module matches them: a pattern is a *)
(* tree, and Match lists the ways the pattern can match at a position in   *)
(* the order a backtracking matcher tries them, so the first one is the    *)
(* match Python reports.  A match state is the position reached and the    *)
(* spans of the capture groups.                                            *)
(***************************************************************************)
NoSpan == <<-1, -1>>

Chr(S) == [t |-> "set", cs |-> S]                    \* [...]
NotChr(S) == [t |-> "nset", cs |-> S]                \* [^...]
Cat(rs) == [t |-> "cat", rs |-> rs]                  \* r1 r2 ...
Alt(rs) == [t |-> "alt", rs |-> rs]                  \* r1|r2|...
\* r{lo,hi}, r{lo,} and the non-greedy r*?
Rep(r, lo, hi) ==
    [t |-> "rep", r |-> r, lo |-> lo, hi |-> hi, open |-> FALSE, greedy |-> TRUE]
RepFrom(r, lo) ==
    [t |-> "rep", r |-> r, lo |-> lo, hi |-> lo, open |-> TRUE, greedy |-> TRUE]
LazyStar(r) ==
    [t |-> "rep", r |-> r, lo |-> 0, hi |-> 0, open |-> TRUE, greedy |-> FALSE]
Grp(n, r) == [t |-> "grp", n |-> n, r |-> r]          \* (r), group n
WordB == [t |-> "wb"]                                \* \b
Bos == [t |-> "bos"]                                 \* ^
Eos == [t |-> "eos"]                                 \* $
NotAhead(r) == [t |-> "nla", r |-> r]                \* (?!r)
Star(r) == RepFrom(r, 0)
Plus(r) == RepFrom(r, 1)
Opt(r) == Rep(r, 0, 1)
\* a literal string, and the same under re.IGNORECASE
Lit(s) == [t |-> "lit", s |-> s, ci |-> FALSE]
LitI(s) == [t |-> "lit", s |-> LowerStr(s), ci |-> TRUE]

IsWordAt(s, i) == i >= 1 /\ i <= Len(s) /\ s[i] \in Word

RECURSIVE Match(_, _, _)
RECURSIVE MatchCat(_, _, _, _)
RECURSIVE MatchRep(_, _, _, _)
\* rs[k], rs[k + 1], ... in a row: each from the states the one before
\* reaches, in order
MatchCat(rs, k, s, sts) ==
    IF k > Len(rs) \/ sts = <<>> THEN sts
    ELSE MatchCat(rs, k + 1, s,
             Flat([i \in 1..Len(sts) |-> Match(rs[k], s, sts[i])], 1, Len(sts)))
\* r.r repeated, n repetitions done so far
MatchRep(r, n, s, st) ==
    With([more \in {IF ~r.open /\ n >= r.hi THEN <<>>
         ELSE With([sts \in {SelectSeq(Match(r.r, s, st), LAMBDA x : x.p > st.p)} |->
                  Flat([i \in 1..Len(sts) |-> MatchRep(r, n + 1, s, sts[i])], 1, Len(sts))])} |->
            LET stop == IF n >= r.lo THEN <<st>> ELSE <<>>
            IN  IF r.greedy THEN more \o stop ELSE stop \o more])
\* the ways r matches in s from st.  MatchRun is a character class repeated:
\* the run of characters of the class that starts at st, cut at r.hi, and the
\* places to stop in it, the farthest first when the repetition is greedy
Match(r, s, st) ==
    LET MatchRun ==
            With([run \in {FirstIn([i \in (st.p + 1)..Len(s) |->
                                       (s[i] \in r.r.cs) # (r.r.t = "set")],
                                   Len(s) + 1) - 1 - st.p} |->
            With([most \in {IF r.open \/ run < r.hi THEN run ELSE r.hi} |->
                [i \in 1..(IF most < r.lo THEN 0 ELSE most - r.lo + 1) |->
                    [st EXCEPT !.p = IF r.greedy THEN st.p + most - i + 1
                                     ELSE st.p + r.lo + i - 1]]])])
    IN
    CASE r.t = "set" ->
            IF st.p < Len(s) /\ s[st.p + 1] \in r.cs
            THEN <<[st EXCEPT !.p = @ + 1]>> ELSE <<>>
      [] r.t = "nset" ->
            IF st.p < Len(s) /\ s[st.p + 1] \notin r.cs
            THEN <<[st EXCEPT !.p = @ + 1]>> ELSE <<>>
      [] r.t = "cat" -> MatchCat(r.rs, 1, s, <<st>>)
      [] r.t = "alt" -> Flat([k \in 1..Len(r.rs) |-> Match(r.rs[k], s, st)], 1, Len(r.rs))
      [] r.t = "lit" ->
            IF /\ st.p + Len(r.s) <= Len(s)
               /\ With([w \in {SubSeq(s, st.p + 1, st.p + Len(r.s))} |->
                       r.s = IF r.ci THEN LowerStr(w) ELSE w])
            THEN <<[st EXCEPT !.p = @ + Len(r.s)]>> ELSE <<>>
      [] r.t = "rep" ->
            IF r.r.t \in {"set", "nset"} THEN MatchRun
            ELSE MatchRep(r, 0, s, st)
      [] r.t = "grp" ->
            With([in \in {Match(r.r, s, st)} |->
                [i \in 1..Len(in) |-> [in[i] EXCEPT !.g[r.n] = <<st.p, in[i].p>>]]])
      [] r.t = "wb" ->
            IF IsWordAt(s, st.p) # IsWordAt(s, st.p + 1) THEN <<st>> ELSE <<>>
      [] r.t = "bos" -> IF st.p = 0 THEN <<st>> ELSE <<>>
      [] r.t = "eos" ->
            IF st.p = Len(s) \/ (st.p = Len(s) - 1 /\ s[Len(s)] = NL)
            THEN <<st>> ELSE <<>>
      [] r.t = "nla" -> IF Match(r.r, s, st) = <<>> THEN <<st>> ELSE <<>>
      [] r.t = "la" -> IF Match(r.r, s, st) # <<>> THEN <<st>> ELSE <<>>
      [] r.t = "lb" ->
            IF st.p >= 1 /\ s[st.p] \in r.cs THEN <<st>> ELSE <<>>

\* a match object: where the match starts and ends and its groups; NoMatch
\* stands for None
NoMatch == [start |-> -1, end |-> -1, g |-> <<NoSpan, NoSpan, NoSpan>>]
\* re.match(r, s) from position p
MatchAt(r, s, p) ==
    With([ms \in {Match(r, s, [p |-> p, g |-> <<NoSpan, NoSpan, NoSpan>>])} |->
        IF ms = <<>> THEN NoMatch
        ELSE [start |-> p, end |-> ms[1].p, g |-> ms[1].g]])
\* re.search(r, s) from position p on
SearchFrom(r, s, p) ==
    With([q \in {FirstIn([j \in p..Len(s) |-> MatchAt(r, s, j) # NoMatch], Len(s) + 1)} |->
        IF q > Len(s) THEN NoMatch ELSE MatchAt(r, s, q)])
Search(r, s) == SearchFrom(r, s, 0)
\* match.group(n)
Group(s, m, n) == SubSeq(s, m.g[n][1] + 1, m.g[n][2])
\* re.finditer(r, s): the successive non-overlapping matches
RECURSIVE FindIterFrom(_, _, _)
FindIterFrom(r, s, p) ==
    With([m \in {SearchFrom(r, s, p)} |->
        IF m = NoMatch THEN <<>>
        ELSE <<m>> \o FindIterFrom(r, s, IF m.end > m.start THEN m.end ELSE m.end + 1)])
FindIter(r, s) == FindIterFrom(r, s, 0)

\* re.sub(r, repl, s) for a replacement without group references
RECURSIVE SubFrom(_, _, _, _)
SubFrom(r, repl, s, p) ==
    With([m \in {SearchFrom(r, s, p)} |->
        IF m = NoMatch THEN SubSeq(s, p + 1, Len(s))
        ELSE IF m.end > m.start
        THEN SubSeq(s, p + 1, m.start) \o repl \o SubFrom(r, repl, s, m.end)
        ELSE SubSeq(s, p + 1, m.start) \o repl
             \o (IF m.end < Len(s) THEN <<s[m.end + 1]>> ELSE <<>>)
             \o (IF m.end < Len(s) THEN SubFrom(r, repl, s, m.end + 1) ELSE <<>>)])
Sub(r, repl, s) == SubFrom(r, repl, s, 0)
\* re.split(r, s) for a pattern without groups that matches no empty string
RECURSIVE SplitFrom(_, _, _)
SplitFrom(r, s, p) ==
    With([m \in {SearchFrom(r, s, p)} |->
        IF m = NoMatch THEN <<SubSeq(s, p + 1, Len(s))>>
        ELSE <<SubSeq(s, p + 1, m.start)>> \o SplitFrom(r, s, m.end)])
Split(r, s) == SplitFrom(r, s, 0)

(***************************************************************************)
(* datetime.strptime and strftime, as normalize_date uses them             *)
(* (utils.py line 35).  strptime turns the format into a regular           *)
(* expression (day and month of one or two digits, %Y of exactly four      *)
(* digits, %y of two, month names in any case, a blank of the format as    *)
(* \s+), matches it at the start of the string, and raises ValueError when *)
(* it does not match, when text remains after the match, or when the       *)
(* fields are no date of the calendar.                                     *)
(***************************************************************************)
\* what strptime gives when it raises ValueError
ValueError == [ok |-> FALSE, d |-> 0, m |-> 0, y |-> 0]

MonthNames ==
    << "january", "february", "march", "april", "may", "june", "july",
       "august", "september", "october", "november", "december" >>
MonthAbbrs ==
    << "jan", "feb", "mar", "apr", "may", "jun", "jul", "aug", "sep", "oct",
       "nov", "dec" >>
D == Chr(Digit)
\* the regular expression of a format: that of each of its directives
FormatRe(fmt) ==
    LET DirectiveRe(tok) ==
        CASE tok = "%d" ->
                Grp(1, Alt(<< Cat(<<Chr({"3"}), Chr({"0", "1"})>>),
                              Cat(<<Chr({"1", "2"}), D>>),
                              Cat(<<Chr({"0"}), Chr(Digit \ {"0"})>>),
                              Chr(Digit \ {"0"}),
                              Cat(<<Chr({" "}), Chr(Digit \ {"0"})>>) >>))
          [] tok = "%m" ->
                Grp(2, Alt(<< Cat(<<Chr({"1"}), Chr({"0", "1", "2"})>>),
                              Cat(<<Chr({"0"}), Chr(Digit \ {"0"})>>),
                              Chr(Digit \ {"0"}) >>))
          [] tok = "%B" -> Grp(2, Alt([i \in 1..12 |-> LitI(Str(MonthNames[i]))]))
          [] tok = "%b" -> Grp(2, Alt([i \in 1..12 |-> LitI(Str(MonthAbbrs[i]))]))
          [] tok = "%Y" -> Grp(3, Rep(D, 4, 4))
          [] tok = "%y" -> Grp(3, Rep(D, 2, 2))
          [] tok = " " -> Plus(Chr(Space))
          [] OTHER -> Chr({tok})
    IN  Cat([i \in 1..Len(fmt) |-> DirectiveRe(fmt[i])])

\* datetime.strptime(s, fmt): the date, or ValueError.  DaysIn is the days of
\* month m of year y, MonthOf the month a matched month field stands for
Strptime(s, fmt) ==
    LET DaysIn(m, y) ==
            IF m = 2 THEN (IF y % 4 = 0 /\ (y % 100 # 0 \/ y % 400 = 0) THEN 29 ELSE 28)
            ELSE IF m \in {4, 6, 9, 11} THEN 30 ELSE 31
        MonthOf(f) ==
            With([l \in {LowerStr(f)} |->
                IF \E i \in 1..12 : Str(MonthNames[i]) = l
                THEN CHOOSE i \in 1..12 : Str(MonthNames[i]) = l
                ELSE IF \E i \in 1..12 : Str(MonthAbbrs[i]) = l
                THEN CHOOSE i \in 1..12 : Str(MonthAbbrs[i]) = l
                ELSE ToInt(f)])
    IN
    With([m \in {MatchAt(FormatRe(fmt), s, 0)} |->
        IF m = NoMatch \/ m.end # Len(s) THEN ValueError
        ELSE LET day == ToInt(LStrip(Group(s, m, 1)))
                 mon == MonthOf(Group(s, m, 2))
                 yf == Group(s, m, 3)
                 year == IF Len(yf) = 4 THEN ToInt(yf)
                         ELSE IF ToInt(yf) <= 68 THEN 2000 + ToInt(yf)
                         ELSE 1900 + ToInt(yf)
             IN  IF year < 1 \/ day > DaysIn(mon, year) THEN ValueError
                 ELSE [ok |-> TRUE, d |-> day, m |-> mon, y |-> year]])
\* date.strftime('%d/%m/%Y'): the C library's strftime, which writes the day
\* and the month with two digits and the year (glibc's %Y) with no padding
Strftime(dt) ==
    ZFill(IntStr(dt.d), 2) \o <<"/">> \o ZFill(IntStr(dt.m), 2) \o <<"/">>
        \o IntStr(dt.y)

(***************************************************************************)
(* utils.normalize_date                                                    *)
(***************************************************************************)
formats ==
    << <<"%d", "/", "%m", "/", "%Y">>,
       <<"%m", "/", "%d", "/", "%Y">>,
       <<"%Y", "-", "%m", "-", "%d">>,
       <<"%d", "-", "%m", "-", "%Y">>,
       <<"%B", " ", "%d", ",", " ", "%Y">>,
       <<"%b", " ", "%d", ",", " ", "%Y">>,
       <<"%d", "/", "%m", "/", "%y">>,
       <<"%Y", "/", "%m", "/", "%d">>,
       <<"%d", "-", "%b", "-", "%Y">>,
       <<"%B", " ", "%d", " ", "%Y">>,
       <<"%b", " ", "%d", " ", "%Y">>,
       <<"%d", " ", "%B", " ", "%Y">>,
       <<"%d", " ", "%b", " ", "%Y">>,
       <<"%d", "-", "%B", "-", "%Y">> >>

\* the loop over formats: the first format that parses decides; NoFormat
\* when every format raised ValueError
NoFormat == <<"NoFormat">>
TryFormats(d_str) ==
    With([k \in {FirstIn([j \in 1..Len(formats) |-> Strptime(d_str, formats[j]).ok],
                          Len(formats) + 1)} |->
        IF k > Len(formats) THEN NoFormat
        ELSE Strftime(Strptime(d_str, formats[k]))])

\* a folding that turns a dot into a hyphen, which it would fold again
FoldSeparators_dots_to_hyphens(d_str) ==
    [i \in 1..Len(d_str) |->
        IF d_str[i] = "." THEN "-"
        ELSE IF d_str[i] \in {"-"} \cup Space THEN "/" ELSE d_str[i]]
\* re.sub(r'[.\s\-]', '/', d_str)
FoldSeparators(d_str) ==
    [i \in 1..Len(d_str) |->
        IF d_str[i] \in {".", "-"} \cup Space THEN "/" ELSE d_str[i]]

RECURSIVE normalize_date(_)
normalize_date(d_str) ==
    IF d_str = None \/ d_str = <<>> THEN d_str
    ELSE With([s \in {Strip(d_str)} |->
         With([hit \in {TryFormats(s)} |->
             IF hit # NoFormat THEN hit
             ELSE IF FoldSeparators(s) # s THEN normalize_date(FoldSeparators(s))
             ELSE s])])

\* how many times a call of normalize_date goes through the loop over
\* formats, its recursive calls (line 43) included
RECURSIVE format_loops(_)
format_loops(d_str) ==
    IF d_str = None \/ d_str = <<>> THEN 0
    ELSE With([s \in {Strip(d_str)} |->
             IF TryFormats(s) = NoFormat /\ FoldSeparators(s) # s
             THEN 1 + format_loops(FoldSeparators(s))
             ELSE 1])

(***************************************************************************)
(* extractor.extract_date                                                  *)
(***************************************************************************)
D12 == Rep(D, 1, 2)
D4 == Rep(D, 4, 4)
DotOrBlank == Chr({".", " "})
\* (?:Jan|Feb|...|Dec)[a-z]*  under re.IGNORECASE
MonthWord ==
    Cat(<< Alt([i \in 1..12 |-> LitI(Str(MonthAbbrs[i]))]), Star(Chr(Upper \cup Lower)) >>)
patterns ==
    << Cat(<<WordB, D12, Chr({"/"}), D12, Chr({"/"}), D4, WordB>>),
       Cat(<<WordB, D4, Chr({"-"}), Rep(D, 2, 2), Chr({"-"}), Rep(D, 2, 2), WordB>>),
       Cat(<<WordB, D12, DotOrBlank, D12, DotOrBlank, D4, WordB>>),
       Cat(<<WordB, D4, DotOrBlank, D12, DotOrBlank, D12, WordB>>),
       Cat(<<WordB, MonthWord, Chr({" "}), D12, Opt(Chr({","})), Star(Chr(Space)),
             D4, WordB>>),
       Cat(<<WordB, D12, Chr({" "}), MonthWord, Chr({" "}), D4, WordB>>) >>
\* (?:Date|Dated|Issue Date)[:\.\s]*([A-Za-z0-9\/\.\-, ]{8,20})
context_pattern ==
    Cat(<< Alt(<<LitI(Str("Date")), LitI(Str("Dated")), LitI(Str("Issue Date"))>>),
           Star(Chr({":", "."} \cup Space)),
           Grp(1, Rep(Chr(Alnum \cup {"/", ".", "-", ",", " "}), 8, 20)) >>)

\* re.sub(r',(\d)', r', \1', date_str)
RECURSIVE SpaceAfterComma(_)
SpaceAfterComma(s) ==
    IF s = <<>> THEN <<>>
    ELSE IF Len(s) >= 2 /\ s[1] = "," /\ s[2] \in Digit
    THEN <<",", " ", s[2]>> \o SpaceAfterComma(SubSeq(s, 3, Len(s)))
    ELSE <<s[1]>> \o SpaceAfterComma(Tail(s))

\* lines 54-91.  FirstPattern is the first stand-alone pattern that is found
\* in the text, or NoMatch (lines 69-75); DropStray is
\* re.sub(r'[^\w\/\.\-, ]', '', potential_date)
extract_date(txt) ==
    LET FirstPattern ==
            With([k \in {FirstIn([j \in 1..Len(patterns) |->
                                     Search(patterns[j], txt) # NoMatch],
                                 Len(patterns) + 1)} |->
                IF k > Len(patterns) THEN NoMatch ELSE Search(patterns[k], txt)])
        DropStray(s) == SelectSeq(s, LAMBDA c : c \in Word \cup {"/", ".", "-", ",", " "})
    IN
    IF txt = None \/ txt = <<>> THEN None
    ELSE With([m \in {FirstPattern} |->
             IF m # NoMatch
             THEN normalize_date(SpaceAfterComma(SubSeq(txt, m.start + 1, m.end)))
             ELSE With([c \in {Search(context_pattern, txt)} |->
                  IF c = NoMatch THEN None
                  ELSE With([normalized \in {normalize_date(DropStray(Strip(Group(txt, c, 1))))} |->
                       IF \E i \in 1..Len(normalized) : normalized[i] \in Digit
                       THEN normalized
                       ELSE None])])])

(***************************************************************************)
(* extractor.extract_serial_number                                         *)
(***************************************************************************)
\* list.sort(key=len, reverse=True): a stable sort, longest first
RECURSIVE InsertByLen(_, _)
InsertByLen(sorted, x) ==
    IF sorted = <<>> THEN <<x>>
    ELSE IF Len(x) > Len(Head(sorted)) THEN <<x>> \o sorted
    ELSE <<Head(sorted)>> \o InsertByLen(Tail(sorted), x)
RECURSIVE SortByLenDesc(_)
SortByLenDesc(list) ==
    IF list = <<>> THEN <<>>
    ELSE InsertByLen(SortByLenDesc(SubSeq(list, 1, Len(list) - 1)), list[Len(list)])

keywords ==
    SortByLenDesc(
    << "Ref No.", "Ref No", "Certificate No.", "Certificate No",
       "Serial Number", "Seri Number", "Serial No.", "Serial N0", "Serial No",
       "Serial", "Ser.Nos.", "Ser.Nos", "Ser.No.", "Ser.No", "Ser. Nos.",
       "Ser. Nos", "Ser Nos", "S/N", "S.N", "SN", "No:", "No." >>)
context_nouns == <<"Tube", "Anode", "Inverter", "Generator", "Tank", "Detector">>
noise_keywords ==
    << "Lane", "Street", "Ward", "District", "Hanoi", "Vietnam",
       "pcs", "pes", "Quantity", "Invoice", "EA",
       "MORITA", "Morita", "MFG", "CORP", "Corporation", "Company", "Ltd",
       "Limited", "Inc", "Incorporated", "Japan", "JAPAN", "USA", "China",
       "Model", "Production", "Year", "Kyoto", "Osaka", "Tokyo",
       "and", "the", "with", "made", "in", "dated", "kind", "type", "ref",
       "certificate", "city", "date" >>

AnyKeyword == Alt([i \in 1..Len(keywords) |-> LitI(Str(keywords[i]))])
\* [A-Za-z0-9]+(?:\s*[seps]\s*[A-Za-z0-9]+)*
Delimited(first, seps) ==
    Cat(<< first,
           Star(Cat(<<Star(Chr(Space)), Chr(seps), Star(Chr(Space)), Plus(Chr(Alnum))>>)) >>)
\* \b(?P<label>...)(?![A-Za-z0-9])[:\.\t \-]*(value), under re.IGNORECASE
sameline_pattern ==
    Cat(<< WordB, Grp(1, AnyKeyword), NotAhead(Chr(Alnum)),
           Star(Chr({":", ".", "\t", " ", "-"})),
           Grp(2, Delimited(Plus(Chr(Alnum)), {"-", "~", "/", ".", "_", ","})) >>)
\* \b(...)\b, under re.IGNORECASE
label_only_pat == Cat(<<WordB, Grp(1, AnyKeyword), WordB>>)
\* \b([A-Z0-9]{5,}(?:\s*[-~/._]\s*[A-Za-z0-9]+)*)\b, case-sensitive
sn_pattern ==
    Cat(<< WordB,
           Grp(1, Delimited(RepFrom(Chr(Upper \cup Digit), 5), {"-", "~", "/", ".", "_"})),
           WordB >>)

AnyChar == NotChr({NL})                               \* .
Ds == Plus(D)
FullMatch(r, s) == MatchAt(Cat(<<Bos, r, Eos>>), s, 0) # NoMatch
is_noise(val) ==
    \/ \E i \in 1..Len(noise_keywords) :
            IsSubstr(LowerStr(Str(noise_keywords[i])), LowerStr(val))
    \/ FullMatch(Cat(<<Ds, Chr({"/"}), Ds, Lit(Str(" - ")), Ds, Chr({"/"}), Ds>>), val)
    \/ FullMatch(Cat(<<Ds, Chr({"/"}), Ds>>), val)
    \/ FullMatch(Cat(<<Rep(Chr(Upper), 2, 4), Rep(D, 1, 3)>>), val)
    \/ FullMatch(RepFrom(Chr(Upper), 3), val)
    \/ FullMatch(Cat(<< Opt(Chr({"+"})), Rep(D, 1, 3), Opt(Chr(Space \cup {"-", "."})),
                        Opt(Chr({"("})), Rep(D, 1, 4), Opt(Chr({")"})),
                        Opt(Chr(Space \cup {"-", "."})), Rep(D, 3, 4),
                        Opt(Chr(Space \cup {"-", "."})), Rep(D, 3, 4) >>), val)
    \/ IsSubstr(Str("www."), LowerStr(val))
    \/ IsSubstr(Str(".com"), LowerStr(val))
    \/ IsSubstr(Str(".co.jp"), LowerStr(val))

\* text[max(0, start_pos-30):start_pos], cut to what follows its last newline;
\* RFind is str.rfind(c): the last position of c, 0 when there is none
PrecedingText(txt, start_pos) ==
    LET RFind(s, c) ==
            IF \E i \in 1..Len(s) : s[i] = c
            THEN CHOOSE i \in 1..Len(s) : s[i] = c /\ \A j \in (i + 1)..Len(s) : s[j] # c
            ELSE 0
    IN
    With([pre \in {SubSeq(txt, (IF start_pos > 30 THEN start_pos - 30 ELSE 0) + 1, start_pos)} |->
          SubSeq(pre, RFind(pre, NL) + 1, Len(pre))])
\* the loop over context_nouns: the first noun of the list found in the
\* preceding text decides
FoundNoun(preceding_text) ==
    With([k \in {FirstIn([j \in 1..Len(context_nouns) |-> Search(Cat(<<WordB, LitI(Str(context_nouns[j])), WordB>>), preceding_text)
                 # NoMatch], Len(context_nouns) + 1)} |->
          IF k > Len(context_nouns) THEN None ELSE Str(context_nouns[k])])

\* r'\s+www$'
WwwEnd == Cat(<<Plus(Chr(Space)), LitI(Str("www")), Eos>>)

\* the values one same-line match adds to results
RECURSIVE SameLineParts(_, _, _, _, _)
SameLineParts(txt, m, parts, k, results) ==
    IF k > Len(parts) THEN results
    ELSE With([val \in {Sub(WwwEnd, <<>>,
                  Sub(Cat(<<Plus(Chr({"."} \cup Space)), Eos>>), <<>>, Strip(parts[k])))} |->
         With([found_noun \in {FoundNoun(PrecedingText(txt, m.start))} |->
         With([next \in {LET formatted_val ==
                      IF found_noun # None
                      THEN val \o Str(" (") \o found_noun \o Str(")")
                      ELSE val
              IN  IF /\ Len(Strip(parts[k])) >= 4
                     /\ ~is_noise(val)
                     /\ \A i \in 1..Len(results) : results[i] # formatted_val
                  THEN Append(results, formatted_val) ELSE results} |->
             SameLineParts(txt, m, parts, k + 1, next)])])])
\* the same-line matches in turn; WwwTail is r'\s+www\b.*$', HttpTail
\* r'\s+http.*$' and PartSep r'[,;\n]|\s{2,}'
RECURSIVE SameLinePass(_, _, _, _)
SameLinePass(txt, ms, k, results) ==
    LET WwwTail == Cat(<<Plus(Chr(Space)), LitI(Str("www")), WordB, Star(AnyChar), Eos>>)
        HttpTail == Cat(<<Plus(Chr(Space)), LitI(Str("http")), Star(AnyChar), Eos>>)
        PartSep == Alt(<<Chr({",", ";", NL}), RepFrom(Chr(Space), 2)>>)
    IN
    IF k > Len(ms) THEN results
    ELSE With([raw0 \in {Strip(Group(txt, ms[k], 2))} |->
         With([next \in {IF LowerStr(raw0) = Str("number") THEN results
              ELSE SameLineParts(txt, ms[k],
                       Split(PartSep, Sub(HttpTail, <<>>, Sub(WwwTail, <<>>, raw0))),
                       1, results)} |->
             SameLinePass(txt, ms, k + 1, next)])])

\* the values the matches of sn_pattern on one line add to results
RECURSIVE ColumnLine(_, _, _, _)
ColumnLine(line, ms, k, results) ==
    IF k > Len(ms) THEN results
    ELSE With([val \in {Sub(WwwEnd, <<>>, Strip(Group(line, ms[k], 1)))} |->
         With([next \in {IF (\A i \in 1..Len(results) : results[i] # val) /\ ~is_noise(val)
              THEN Append(results, val) ELSE results} |->
             ColumnLine(line, ms, k + 1, next)])])
RECURSIVE ColumnScan(_, _, _, _)
ColumnScan(lines, j, end_scan, results) ==
    IF j > end_scan THEN results
    ELSE With([next \in {ColumnLine(lines[j], FindIter(sn_pattern, lines[j]), 1, results)} |->
               ColumnScan(lines, j + 1, end_scan, next)])
\* lines are numbered from 1 here, from 0 in the code: range(i+1, min(len, i+10))
RECURSIVE ColumnPass(_, _, _)
ColumnPass(lines, i, results) ==
    IF i > Len(lines) THEN results
    ELSE With([next \in {IF Search(label_only_pat, lines[i]) # NoMatch
              THEN ColumnScan(lines, i + 1,
                       IF Len(lines) < i + 9 THEN Len(lines) ELSE i + 9, results)
              ELSE results} |->
             ColumnPass(lines, i + 1, next)])

extract_serial_number(txt) ==
    IF txt = None \/ txt = <<>> THEN <<>>
    ELSE With([results \in {SameLinePass(txt, FindIter(sameline_pattern, txt), 1, <<>>)} |->
               ColumnPass(SplitChar(txt, NL), 1, results)])

(***************************************************************************)
(* utils.expand_serial_ranges                                              *)
(***************************************************************************)
\* the largest difference of a range that is expanded
RangeLimit == 200

\* s.split(sep, 1), for a sep that occurs in s
SplitOnce(s, sep) ==
    LET At(i) == SubSeq(s, i + 1, i + Len(sep)) = sep
        k == CHOOSE i \in 0..(Len(s) - Len(sep)) : At(i) /\ \A j \in 0..(i - 1) : ~At(j)
    IN  <<SubSeq(s, 1, k), SubSeq(s, k + Len(sep) + 1, Len(s))>>
\* s.replace(a, b) for characters a and b
Replace(s, a, b) == [i \in 1..Len(s) |-> IF s[i] = a THEN b ELSE s[i]]

\* line 155 without its limit on the size of the range
RangeTooWide_descending_only(start_num, end_num) == end_num < start_num
\* line 155: a range must be ascending and of a reasonable size
RangeTooWide(start_num, end_num) ==
    end_num < start_num \/ end_num - start_num > RangeLimit
\* lines 118-163: whether the two halves are a range, and which.  NumberTail
\* is r'^(.*?)(\d+)$'; SimilarPrefix is lines 137-150, the end half belonging
\* to the same series as the start half; end_str.isdigit() is line 158
RangeOf(start_str, end_str, separator) ==
    LET NumberTail == Cat(<<Bos, Grp(1, LazyStar(AnyChar)), Grp(2, Plus(D)), Eos>>)
        NoRange == [is_range |-> FALSE, prefix |-> <<>>, start_num |-> 0,
                    end_num |-> 0, width |-> 0]
        SimilarPrefix(prefix, end_prefix) ==
            \/ end_prefix = prefix
            \/ Replace(end_prefix, "0", "O") = Replace(prefix, "0", "O")
            \/ end_prefix = <<>> /\ separator \in {"~", "-"}
    IN
    With([match_start \in {Search(NumberTail, start_str)} |->
    With([match_end \in {Search(NumberTail, end_str)} |->
        IF match_start = NoMatch THEN NoRange
        ELSE LET prefix == Group(start_str, match_start, 1)
                 start_num_str == Group(start_str, match_start, 2)
                 start_num == ToInt(start_num_str)
                 end_num == IF match_end # NoMatch
                            THEN ToInt(Group(end_str, match_end, 2))
                            ELSE ToInt(end_str)
                 is_range ==
                     IF match_end # NoMatch
                     THEN /\ SimilarPrefix(prefix, Group(end_str, match_end, 1))
                          /\ ~RangeTooWide(start_num, end_num)
                     ELSE /\ end_str # <<>>
                          /\ \A i \in 1..Len(end_str) : end_str[i] \in Digit
                          /\ end_num > start_num
                          /\ end_num - start_num <= RangeLimit
             IN  IF is_range
                 THEN [is_range |-> TRUE, prefix |-> prefix, start_num |-> start_num,
                       end_num |-> end_num, width |-> Len(start_num_str)]
                 ELSE NoRange])])
\* lines 174-178 with the padding of str(i) left out
RangeTokens_unpadded(rng) ==
    [i \in 1..(rng.end_num - rng.start_num + 1) |->
        rng.prefix \o IntStr(rng.start_num + i - 1)]
\* lines 174-178: the tokens of a range, in the start half's formatting
RangeTokens(rng) ==
    [i \in 1..(rng.end_num - rng.start_num + 1) |->
        rng.prefix \o ZFill(IntStr(rng.start_num + i - 1), rng.width)]
\* lines 112-195 with a sub-item that is no range always kept whole
Halves_kept_whole(sub, parts, separator) ==
    With([rng \in {RangeOf(Strip(parts[1]), Strip(parts[2]), separator)} |->
        IF rng.is_range THEN RangeTokens(rng) ELSE <<sub>>])
\* lines 112-195: what a sub-item with a separator adds to the list
Halves(sub, parts, separator) ==
    With([start_str \in {Strip(parts[1])} |->
    With([end_str \in {Strip(parts[2])} |->
    With([rng \in {RangeOf(start_str, end_str, separator)} |->
        IF rng.is_range THEN RangeTokens(rng)
        ELSE IF separator = "~" THEN <<sub>>
        ELSE IF Len(start_str) > 3 /\ Len(end_str) > 3 THEN <<start_str, end_str>>
        ELSE <<sub>>])])])
\* lines 78-195: what one sub-item adds to the list; sub.count('-') == 1 is
\* line 101
ExpandSub(sub) ==
    IF \E i \in 1..Len(sub) : sub[i] = "~"
    THEN Halves(sub, SplitOnce(sub, <<"~">>), "~")
    ELSE IF \A i \in 1..Len(sub) : sub[i] # "-" THEN <<sub>>
    ELSE IF IsSubstr(Str(" - "), sub) THEN Halves(sub, SplitOnce(sub, Str(" - ")), "-")
    ELSE IF Cardinality({i \in 1..Len(sub) : sub[i] = "-"}) = 1
    THEN Halves(sub, SplitOnce(sub, <<"-">>), "-")
    ELSE <<sub>>
\* lines 47-197.  ExpandItem is what one item of the list adds (lines 66-195),
\* its sub-items those of re.split(r'[,;]\s*', item)
expand_serial_ranges(serial_list) ==
    LET ExpandItem(item) ==
            IF item = None \/ item = <<>> THEN <<>>
            ELSE With([sub_items \in {Split(Cat(<<Chr({",", ";"}), Star(Chr(Space))>>),
                                            item)} |->
                     Flat([k \in 1..Len(sub_items) |->
                              With([sub \in {Strip(sub_items[k])} |->
                                  IF sub = <<>> THEN <<>> ELSE ExpandSub(sub)])],
                          1, Len(sub_items))])
    IN  IF serial_list = <<>> THEN <<>>
        ELSE Flat([i \in 1..Len(serial_list) |-> ExpandItem(serial_list[i])],
                  1, Len(serial_list))

(***************************************************************************)
(* utils.clean_serial_number and utils.is_serial_in_range                  *)
(***************************************************************************)
\* lines 199-236: r'^KO\d+' makes the serial start with K0, and when the
\* result holds a digit, r'O(?=\d)' and then r'(?<=\d)O' turn O into 0
clean_serial_number(serial) ==
    IF serial = None \/ serial = <<>> THEN serial
    ELSE With([ko \in {IF MatchAt(Cat(<<Bos, Lit(Str("KO")), Plus(D)>>), serial, 0)
                            # NoMatch
                       THEN Str("K0") \o SubSeq(serial, 3, Len(serial))
                       ELSE serial} |->
             IF \E i \in 1..Len(ko) : ko[i] \in Digit
             THEN Sub(Cat(<<[t |-> "lb", cs |-> Digit], Chr({"O"})>>), <<"0">>,
                      Sub(Cat(<<Chr({"O"}), [t |-> "la", r |-> D]>>), <<"0">>, ko))
             ELSE ko])

\* re.split(r'[\n,;]', db_serial_string)
EntrySep == Chr({NL, ",", ";"})
\* lines 264-271 alone: the fuzzy comparison of lines 273-275 left out
ItemMatches_literal(clean_target, item) ==
    IsSubstr(clean_target, clean_serial_number(item))
\* lines 264-275: one expanded item against the cleaned query
ItemMatches(clean_target, item) ==
    With([clean_item \in {clean_serial_number(item)} |->
        \/ IsSubstr(clean_target, clean_item)
        \/ IsSubstr(Replace(clean_target, "O", "0"), Replace(clean_item, "O", "0"))])
\* line 254 left out: the entries are compared as they are stored
is_serial_in_range_unexpanded(target_serial, db_serial_string) ==
    IF db_serial_string = None \/ db_serial_string = <<>> THEN FALSE
    ELSE IF /\ IsSubstr(target_serial, db_serial_string)
            /\ \A i \in 1..Len(db_serial_string) : db_serial_string[i] # "~"
    THEN TRUE
    ELSE With([raw_list \in {Split(EntrySep, db_serial_string)} |->
         With([clean_target \in {clean_serial_number(target_serial)} |->
             \E i \in 1..Len(raw_list) : ItemMatches(clean_target, raw_list[i])])])
is_serial_in_range(target_serial, db_serial_string) ==
    IF db_serial_string = None \/ db_serial_string = <<>> THEN FALSE
    ELSE IF /\ IsSubstr(target_serial, db_serial_string)
            /\ \A i \in 1..Len(db_serial_string) : db_serial_string[i] # "~"
    THEN TRUE
    ELSE With([expanded_list \in {expand_serial_ranges(Split(EntrySep, db_serial_string))} |->
         With([clean_target \in {clean_serial_number(target_serial)} |->
             \E i \in 1..Len(expanded_list) : ItemMatches(clean_target, expanded_list[i])])])

(***************************************************************************)
(* Exceptions.  A function's outcome is a record: the value it returns,    *)
(* or raised, and what it logged.  Try is  try: ... except Exception:      *)
(* with a handler that logs msgs and returns fallback.                     *)
(***************************************************************************)
Ret(v) == [raised |-> FALSE, value |-> v, logged |-> {}]
Raised == [raised |-> TRUE, value |-> None, logged |-> {}]
\* no handler: what the body raised leaves the function
Uncaught(r, fallback, msgs) == r
Try(r, fallback, msgs) ==
    IF r.raised THEN [raised |-> FALSE, value |-> fallback, logged |-> msgs] ELSE r

(***************************************************************************)
(* The document, as the libraries present it: file.text is what            *)
(* pdfplumber extracts from its page, file.images whether the first page   *)
(* holds images, file.tables the tables of the page, file.ocr the text     *)
(* Tesseract reads from each page image.  Each is what the library call    *)
(* yields: Gives(v), or Fails when the call raises.                        *)
(***************************************************************************)
Gives(v) == [fails |-> FALSE, v |-> v]
Fails == [fails |-> TRUE, v |-> <<>>]

has_images(images) ==
    Try(IF images = "error" THEN Raised ELSE Ret(images = "yes"), FALSE, {})

\* one page: text += extracted + "\n" when the page has text
extract_text_from_pdf(page_text) ==
    Try(IF page_text.fails THEN Raised
        ELSE Ret(IF page_text.v # <<>> THEN page_text.v \o <<NL>> ELSE <<>>),
        None, {"Error extracting PDF text"})

\* full_text += "\n--- Page i ---\n" + text, for each page image
RECURSIVE OcrPages(_, _)
OcrPages(pages, i) ==
    IF i > Len(pages) THEN <<>>
    ELSE Str("\n--- Page ") \o IntStr(i) \o Str(" ---\n") \o pages[i]
         \o OcrPages(pages, i + 1)
extract_text_with_ocr(ocr) ==
    Try(IF ocr.fails THEN Raised ELSE Ret(OcrPages(ocr.v, 1)),
        None, {"Tesseract OCR failed"})

(***************************************************************************)
(* extractor.extract_from_tables.  A table is a sequence of rows, a row a  *)
(* sequence of cells, a cell a string or None.  Rows and columns are       *)
(* numbered from 1 here and from 0 in the code.  The result holds None     *)
(* for an absent date key and <<>> for an absent serial_number key.        *)
(***************************************************************************)
sn_headers == <<"Serial Number", "Serial No.", "Seri Number", "Seri">>
date_headers == <<"Date", "Issue Date", "Dated">>
noise_col_vals == <<"product type", "type", "product", "power", "mac", "window">>

\* str(cell)
PyStr(cell) == IF cell = None THEN Str("None") ELSE cell
ContainsAny(keys, cell) ==
    \E k \in 1..Len(keys) : IsSubstr(LowerStr(Str(keys[k])), LowerStr(cell))

\* the scan with values of 4 characters kept as well
RECURSIVE ScanColumn_four_characters(_, _, _, _, _)
ScanColumn_four_characters(table, r, last, col, found_sns) ==
    IF r > last THEN found_sns
    ELSE With([val \in {IF Len(table[r]) >= col THEN Strip(PyStr(table[r][col])) ELSE <<>>} |->
         With([next \in {IF Len(val) >= 4 /\ ~ContainsAny(noise_col_vals, val)
              THEN Append(found_sns, val) ELSE found_sns} |->
             ScanColumn_four_characters(table, r + 1, last, col, next)])])
\* the scan of column col below row i: range(i + 1, min(len(table), i + 15))
RECURSIVE ScanColumn(_, _, _, _, _)
ScanColumn(table, r, last, col, found_sns) ==
    IF r > last THEN found_sns
    ELSE With([val \in {IF Len(table[r]) >= col THEN Strip(PyStr(table[r][col])) ELSE <<>>} |->
         With([next \in {IF Len(val) > 4 /\ ~ContainsAny(noise_col_vals, val)
              THEN Append(found_sns, val) ELSE found_sns} |->
             ScanColumn(table, r + 1, last, col, next)])])

\* one cell of one row: the serial header check, then the date header check;
\* row_text is [str(cell).strip() if cell else "" for cell in row]
TableCell(table, i, col, acc) ==
    With([row_text \in {[c \in 1..Len(table[i]) |->
                            IF table[i][c] = None \/ table[i][c] = <<>> THEN <<>>
                            ELSE Strip(table[i][c])]} |->
    With([sns \in {acc.serial_number
         \o (IF ContainsAny(sn_headers, row_text[col])
             THEN ScanColumn(table, i + 1,
                      IF Len(table) < i + 14 THEN Len(table) ELSE i + 14, col, <<>>)
             ELSE <<>>)} |->
        LET is_date == ContainsAny(date_headers, row_text[col])
            right == IF col + 1 <= Len(row_text) THEN row_text[col + 1] ELSE <<>>
            date1 == IF is_date /\ right # <<>> THEN right ELSE acc.date
            look_below == is_date /\ date1 = None /\ i + 1 <= Len(table)
            below == Strip(PyStr(table[i + 1][col]))
        IN  IF look_below /\ Len(table[i + 1]) < col
            THEN [date |-> date1, serial_number |-> sns, raised |-> TRUE]    \* IndexError
            ELSE [date |-> IF look_below /\ below # <<>> THEN below ELSE date1,
                  serial_number |-> sns, raised |-> FALSE]])])

\* the loops over the rows and the cells of one table, and over the tables
RECURSIVE TableCells(_, _, _, _)
TableCells(table, i, col, acc) ==
    IF acc.raised \/ i > Len(table) THEN acc
    ELSE IF col > Len(table[i]) THEN TableCells(table, i + 1, 1, acc)
    ELSE With([next \in {TableCell(table, i, col, acc)} |->
             TableCells(table, i, col + 1, next)])
RECURSIVE TablesLoop(_, _, _)
TablesLoop(tables, t, acc) ==
    IF acc.raised \/ t > Len(tables) THEN acc
    ELSE With([next \in {TableCells(tables[t], 1, 1, acc)} |->
             TablesLoop(tables, t + 1, next)])

\* the except clause logs and falls through to  return extracted_data
extract_from_tables(tables) ==
    With([acc \in {IF tables.fails
         THEN [date |-> None, serial_number |-> <<>>, raised |-> TRUE]
         ELSE TablesLoop(tables.v, 1,
                  [date |-> None, serial_number |-> <<>>, raised |-> FALSE])} |->
            [raised |-> FALSE,
             value |-> [date |-> acc.date, serial_number |-> acc.serial_number],
             logged |-> IF acc.raised THEN {"Table extraction failed"} ELSE {}]])

(***************************************************************************)
(* extractor.extract_data: the pieces                                      *)
(***************************************************************************)
\* Python's truth value of a string or None, and of a list
Truthy(x) == x # None /\ x # <<>>
NonEmpty(list) == list # <<>>

\* is_scanned = not text or len(text.strip()) < 10
IsScanned(txt) == ~Truthy(txt) \/ Len(Strip(txt)) < 10

\* the smart merge of one table serial into the list (lines 293-304)
Related(a, b) == IsSubstr(a, b) \/ IsSubstr(b, a)
\* the smart merge that drops a table serial no entry is related to
merge_serial_no_append(list, sn) ==
    IF \E i \in 1..Len(list) : Related(sn, list[i])
    THEN LET i == CHOOSE j \in 1..Len(list) :
                      Related(sn, list[j]) /\ \A h \in 1..(j - 1) : ~Related(sn, list[h])
         IN  IF Len(sn) > Len(list[i]) THEN [list EXCEPT ![i] = sn] ELSE list
    ELSE list
\* the smart merge that takes the table's string whatever its length
merge_serial_table_wins(list, sn) ==
    IF \E i \in 1..Len(list) : Related(sn, list[i])
    THEN LET i == CHOOSE j \in 1..Len(list) :
                      Related(sn, list[j]) /\ \A h \in 1..(j - 1) : ~Related(sn, list[h])
         IN  [list EXCEPT ![i] = sn]
    ELSE Append(list, sn)
merge_serial(list, sn) ==
    IF \E i \in 1..Len(list) : Related(sn, list[i])
    THEN LET i == CHOOSE j \in 1..Len(list) :
                      Related(sn, list[j]) /\ \A h \in 1..(j - 1) : ~Related(sn, list[h])
         IN  IF Len(sn) > Len(list[i]) THEN [list EXCEPT ![i] = sn] ELSE list
    ELSE Append(list, sn)

\* is_digital_complete = bool(data["date"] and data["serial_number"])
IsComplete(d) == Truthy(d.date) /\ NonEmpty(d.serial_number)
\* should_ocr without its last disjunct: an incomplete record alone does not
\* trigger OCR
should_ocr_needs_images(force, scanned, complete, img) ==
    force \/ scanned \/ (~complete /\ img)
\* should_ocr with the image check alone as a trigger
should_ocr_on_images(force, scanned, complete, img) ==
    force \/ scanned \/ img \/ ~complete
\* should_ocr (line 311)
should_ocr(force, scanned, complete, img) ==
    force \/ scanned \/ (~complete /\ img) \/ ~complete

\* the OCR date whenever OCR found one
merge_ocr_date_ocr_wins(date, ocr_date, scanned) ==
    IF Truthy(ocr_date) THEN ocr_date ELSE date
\* lines 325-327: the date after the OCR stage
merge_ocr_date(date, ocr_date, scanned) ==
    IF Truthy(ocr_date) /\ (~Truthy(date) \/ scanned) THEN ocr_date ELSE date
\* lines 329-332: for sn in ocr_sns: if sn not in data["serial_number"]: append
RECURSIVE merge_ocr_serials(_, _)
merge_ocr_serials(list, ocr_sns) ==
    IF ocr_sns = <<>> THEN list
    ELSE merge_ocr_serials(
             IF \E i \in 1..Len(list) : list[i] = Head(ocr_sns) THEN list
             ELSE Append(list, Head(ocr_sns)),
             Tail(ocr_sns))

\* the hybrid tag whatever the digital and table stages found
ocr_method_always_hybrid(d) == "Regex + OCR"
\* the method tag once OCR text was obtained (lines 319-322), and when it
\* was not (lines 334-335)
ocr_method(d) ==
    IF Truthy(d.date) \/ NonEmpty(d.serial_number) THEN "Regex + OCR" ELSE "OCR (Tesseract)"
\* the Failed tag for scanned documents only
ocr_failed_method_scanned(scanned, force, method0) ==
    IF scanned THEN "OCR (Tesseract) (Failed)" ELSE method0
ocr_failed_method(scanned, force, method0) ==
    IF scanned \/ force THEN "OCR (Tesseract) (Failed)" ELSE method0

\* list(dict.fromkeys(list)): the first occurrence of each entry, in order
RECURSIVE Dedup(_)
Dedup(list) ==
    IF list = <<>> THEN <<>>
    ELSE LET init == Dedup(SubSeq(list, 1, Len(list) - 1))
             x == list[Len(list)]
         IN  IF \E i \in 1..Len(init) : init[i] = x THEN init ELSE Append(init, x)
\* the final formatting that turns an empty list into an empty string
format_serials_empty_string(list) ==
    IF NonEmpty(list) THEN Join(Dedup(list), <<NL>>) ELSE <<>>
\* the final formatting of the serial list (lines 338-342)
format_serials(list) ==
    IF NonEmpty(list) THEN Join(Dedup(list), <<NL>>) ELSE None

(***************************************************************************)
(* The documents the model runs extract_data on                            *)
(***************************************************************************)
MaxTextLines == 2
MaxTableRows == 2
MaxOcrLines == 1

\* some of the lines, at most n of them, in their order
RECURSIVE Pick(_, _, _)
Pick(lines, S, i) ==
    IF i > Len(lines) THEN <<>>
    ELSE (IF i \in S THEN <<lines[i]>> ELSE <<>>) \o Pick(lines, S, i + 1)
PicksOf(lines, n) ==
    { Pick(lines, S, 1) : S \in {T \in SUBSET (1..Len(lines)) : Cardinality(T) <= n} }
TextsOf(lines, n) == { Join(p, <<NL>>) : p \in PicksOf(lines, n) }

\* the digital text layer: some of these lines, or the library call fails
PageTexts ==
    LET TextLines ==
            << Str("Serial Number: Wrong1"),
               Str("Serial Number: Wrong1234"),
               Str("Date: 2023-10-30"),
               Str("Date: see attachment 5"),
               Str("Random noisy text") >>
    IN  {Fails} \cup {Gives(t) : t \in TextsOf(TextLines, MaxTextLines)}
\* no tables, or one table with a serial column of some of SerialCells and a
\* date column, the cell under the date header empty or a date, written
\* year first or day first
PageTables ==
    LET SerialCells ==
            << Str("Right1 (Tube)"), Str("Wrong12"), Str("Wrong1 (Tube)"),
               Str("Wrong"), Str("SN-001\nSN-002") >>
        TableOf(cells, date) ==
            << <<Str("Serial No."), Str("Date")>> >>
            \o [i \in 1..Len(cells) |-> <<cells[i], IF i = 1 THEN date ELSE <<>> >>]
    IN  {Fails, Gives(<<>>)}
        \cup {Gives(<<TableOf(c, d)>>) : c \in PicksOf(SerialCells, MaxTableRows),
                                         d \in {<<>>, Str("2025-01-01"),
                                                Str("15-01-2025")}}
\* what Tesseract reads from the page images: no page, or one page of some of
\* these lines
PageOcr ==
    LET OcrLines ==
            << Str("Serial No. SN-002"), Str("Serial Number: Wrong1"),
               Str("Serial No. Wrong"), Str("Date: 2024-01-15") >>
    IN  {Fails, Gives(<<>>)} \cup {Gives(<<t>>) : t \in TextsOf(OcrLines, MaxOcrLines)}

\* every text the extraction functions are given, and what they return for
\* it: extract_date and extract_serial_number are computed once per text
Extracted ==
    LET Texts ==
            {extract_text_from_pdf(p).value : p \in PageTexts}
            \cup {extract_text_with_ocr(o).value : o \in PageOcr}
            \cup {extract_from_tables(tb).value.date : tb \in PageTables}
    IN  { [text |-> t, date |-> extract_date(t),
           serial_number |-> extract_serial_number(t)] : t \in Texts }
ExtractedFrom(t) == CHOOSE e \in Extracted : e.text = t

(***************************************************************************)
(* extractor.extract_data as a state machine: one call, from its           *)
(* arguments to its return value                                           *)
(***************************************************************************)
VARIABLES
    pc,                   \* where the call is: start, table, merge, final, done, raised
    force_ocr,            \* the argument
    text, is_scanned, has_img, data, table_data, is_digital_complete,
    ocr_text, method,     \* the locals of extract_data
    sn_idx,               \* the table serial the merge loop is at
    ocr_calls,            \* calls of extract_text_with_ocr
    ai_calls,             \* calls of ai_extractor.extract_with_gemini
    log,                  \* what logging.error was given
    result,               \* the returned data and method
    call,                 \* the call of a function of utils.py or of
                          \* extract_from_tables on its own: its arguments
                          \* and what it returned
    mode,                 \* app.py: the scan that is running, if any
    spreadsheet_id,       \* whether the scan was given a Google Sheet ID
    existing_links,       \* the scan's set of Drive links taken as processed
    sheet,                \* the data rows of the spreadsheet, each by its
                          \* Drive Link cell
    downloaded            \* the links of the files the last folder batch
                          \* downloaded and extracted

vars ==
    << pc, force_ocr, text, is_scanned, has_img, data, table_data,
       is_digital_complete, ocr_text, method, sn_idx, ocr_calls, ai_calls, log,
       result, call, mode, spreadsheet_id, existing_links, sheet, downloaded >>

NoData == [date |-> None, serial_number |-> <<>>]
NoCall == [fn |-> "", args |-> <<>>, ret |-> None]

Init ==
    /\ pc = "start"
    /\ force_ocr \in BOOLEAN
    /\ text = None
    /\ is_scanned = FALSE
    /\ has_img = FALSE
    /\ data = NoData
    /\ table_data = NoData
    /\ is_digital_complete = FALSE
    /\ ocr_text = None
    /\ method = "Regex"
    /\ sn_idx = 1
    /\ ocr_calls = 0
    /\ ai_calls = 0
    /\ log = {}
    /\ result = [date |-> None, serial_number |-> None, method |-> ""]
    /\ call = NoCall
    /\ mode = "idle"
    /\ spreadsheet_id = FALSE
    /\ existing_links = {}
    /\ sheet = <<>>
    /\ downloaded = <<>>

\* an exception that no handler caught leaves extract_data
Propagate ==
    /\ pc' = "raised"
    /\ UNCHANGED << mode, spreadsheet_id, existing_links, sheet, downloaded, call, force_ocr, text, is_scanned, has_img, data, table_data,
                    is_digital_complete, ocr_text, method, sn_idx, ocr_calls,
                    ai_calls, log, result >>

\* lines 276-284: the digital text, the image check, the digital extraction
Digital(page_text, images) ==
    /\ pc = "start"
    /\ LET t == extract_text_from_pdf(page_text)
           im == has_images(images)
       IN  IF t.raised \/ im.raised THEN Propagate
           ELSE /\ text' = t.value
                /\ is_scanned' = IsScanned(t.value)
                /\ has_img' = im.value
                /\ data' = [date |-> ExtractedFrom(t.value).date,
                            serial_number |-> ExtractedFrom(t.value).serial_number]
                /\ log' = log \cup t.logged \cup im.logged
                /\ pc' = "table"
                /\ UNCHANGED << mode, spreadsheet_id, existing_links, sheet, downloaded, call, force_ocr, table_data, is_digital_complete, ocr_text,
                                method, sn_idx, ocr_calls, ai_calls, result >>

\* lines 287-289: the table extraction and the table date
TableSupplement(tables) ==
    /\ pc = "table"
    /\ LET td == extract_from_tables(tables)
       IN  IF td.raised THEN Propagate
           ELSE /\ table_data' = td.value
                /\ data' = [data EXCEPT !.date =
                                IF Truthy(td.value.date) /\ ~Truthy(data.date)
                                THEN ExtractedFrom(td.value.date).date ELSE @]
                /\ log' = log \cup td.logged
                /\ sn_idx' = 1
                /\ pc' = "merge"
                /\ UNCHANGED << mode, spreadsheet_id, existing_links, sheet, downloaded, call, force_ocr, text, is_scanned, has_img,
                                is_digital_complete, ocr_text, method, ocr_calls,
                                ai_calls, result >>

\* lines 292-304: one round of the loop over the table serials
MergeSerial ==
    /\ pc = "merge"
    /\ sn_idx <= Len(table_data.serial_number)
    /\ data' = [data EXCEPT !.serial_number =
                    merge_serial(@, table_data.serial_number[sn_idx])]
    /\ sn_idx' = sn_idx + 1
    /\ UNCHANGED << mode, spreadsheet_id, existing_links, sheet, downloaded, call, pc, force_ocr, text, is_scanned, has_img, table_data,
                    is_digital_complete, ocr_text, method, ocr_calls, ai_calls, log,
                    result >>

\* lines 307-335 when should_ocr holds: the OCR text is asked for
OcrStage(ocr) ==
    /\ pc = "merge"
    /\ sn_idx > Len(table_data.serial_number)
    /\ should_ocr(force_ocr, is_scanned, IsComplete(data), has_img)
    /\ LET o == extract_text_with_ocr(ocr)
       IN  IF o.raised THEN Propagate
           ELSE /\ is_digital_complete' = IsComplete(data)
                /\ ocr_calls' = ocr_calls + 1
                /\ ocr_text' = o.value
                /\ log' = log \cup o.logged
                /\ IF Truthy(o.value)
                   THEN LET ocr_date == ExtractedFrom(o.value).date
                        IN  /\ method' = ocr_method(data)
                            /\ data' =
                                 [date |-> merge_ocr_date(data.date, ocr_date, is_scanned),
                                  serial_number |->
                                      merge_ocr_serials(data.serial_number,
                                          ExtractedFrom(o.value).serial_number)]
                   ELSE /\ method' = ocr_failed_method(is_scanned, force_ocr, method)
                        /\ data' = data
                /\ pc' = "final"
                /\ UNCHANGED << mode, spreadsheet_id, existing_links, sheet, downloaded, call, force_ocr, text, is_scanned, has_img, table_data,
                                sn_idx, ai_calls, result >>

\* lines 307-313 when should_ocr does not hold
SkipOcr ==
    /\ pc = "merge"
    /\ sn_idx > Len(table_data.serial_number)
    /\ ~should_ocr(force_ocr, is_scanned, IsComplete(data), has_img)
    /\ is_digital_complete' = IsComplete(data)
    /\ pc' = "final"
    /\ UNCHANGED << mode, spreadsheet_id, existing_links, sheet, downloaded, call, force_ocr, text, is_scanned, has_img, data, table_data,
                    ocr_text, method, sn_idx, ocr_calls, ai_calls, log, result >>

\* lines 338-344: the final formatting and the return
Final ==
    /\ pc = "final"
    /\ result' = [date |-> data.date,
                  serial_number |-> format_serials(data.serial_number),
                  method |-> method]
    /\ pc' = "done"
    /\ UNCHANGED << mode, spreadsheet_id, existing_links, sheet, downloaded, call, force_ocr, text, is_scanned, has_img, data, table_data,
                    is_digital_complete, ocr_text, method, sn_idx, ocr_calls,
                    ai_calls, log >>

Next ==
    \/ \E t \in PageTexts, im \in {"yes", "no", "error"} : Digital(t, im)
    \/ \E tb \in PageTables : TableSupplement(tb)
    \/ MergeSerial
    \/ \E o \in PageOcr : OcrStage(o)
    \/ SkipOcr
    \/ Final

Spec == Init /\ [][Next]_vars

(***************************************************************************)
(* The functions of utils.py, extract_serial_number and                    *)
(* extract_from_tables called on their own,                                *)
(* as sheets_cleanup.py, user_app.py and the tests call them: one call,    *)
(* from its arguments to its return value                                  *)
(***************************************************************************)
MaxEntries == 2
MaxColumnRows == 3

\* every sequence of at most n elements of S
SeqsUpTo(S, n) == UNION {[1..k -> S] : k \in 0..n}

\* date strings: numeric dates in both orders with each separator, dates
\* with month names, and strings that are no dates
DateStrings ==
    LET DateDays == {Str("1"), Str("05"), Str("31")}
        DateMonths == {Str("2"), Str("12"), Str("13")}
        DateYears == {Str("2023"), Str("0099"), Str("99")}
        DateSeps == {"/", "-", ".", " "}
    IN
    {d \o <<c>> \o m \o <<c>> \o y :
        d \in DateDays, m \in DateMonths, y \in DateYears, c \in DateSeps}
    \cup {y \o <<c>> \o m \o <<c>> \o d :
        d \in DateDays, m \in DateMonths, y \in DateYears, c \in DateSeps}
    \cup {Str("Jan 5, 2024"), Str("January 5 0999"), Str("5 Jan 2024"),
          Str("05-Jan-2024"), Str("  12/05/2023  "), Str("hello world"),
          Str("see attachment 5"), Str("a.b - c"), Str("12 Octobr 2023"),
          Str("noseparator"), <<>>, None}

\* a sub-item of two halves: prefix and number, separator, prefix and number
RangeShapes ==
    [pre : {<<>>, Str("A"), Str("K0X")},
     s : {Str("5"), Str("098"), Str("100")},
     sep : {Str("~"), Str("-"), Str(" - ")},
     epre : {<<>>, Str("A"), Str("B"), Str("KOX")},
     delta : {-1, 0, 3, 100, RangeLimit, RangeLimit + 1}]
StartHalf(r) == r.pre \o r.s
EndHalf(r) == r.epre \o ZFill(IntStr(ToInt(r.s) + r.delta), Len(r.s))
Item(r) == StartHalf(r) \o r.sep \o EndHalf(r)

\* stored values: entries, ranges among them, joined by the separators of
\* the sheet; the last entry is a range broken over two lines.  The queries
\* are serials inside and outside the ranges, and the entries themselves
StoredValues ==
    LET StoredEntries ==
            << Str("A100~A103"), Str("A098-A101"), Str("K0X5 - KOX7"), Str("A100~102"),
               Str("B7"), Str("SN-001"), Str("A100~\nA102") >>
    IN  {Join(p, c) : p \in PicksOf(StoredEntries, MaxEntries),
                      c \in {<<NL>>, Str(", "), <<";">>}}
Queries ==
    {Str("A098"), Str("A099"), Str("A100"), Str("A101"), Str("A102"), Str("A103"),
     Str("A104"), Str("K0X5"), Str("K0X6"), Str("K0X7"), Str("KOX6"), Str("B7"),
     Str("SN-001"), Str("102"),
     Str("A100~A103"), Str("A098-A101"), Str("K0X5 - KOX7"), Str("A100~102"), Str("A100~")}
\* tokens that differ by the letter O and the digit 0 only, and others
FuzzyTokens ==
    LET RECURSIVE Confusions(_)
        Confusions(s) ==
            IF s = <<>> THEN {<<>>}
            ELSE {<<c>> \o t : c \in (IF Head(s) \in {"O", "0"} THEN {"O", "0"}
                                      ELSE {Head(s)}),
                               t \in Confusions(Tail(s))}
    IN  Confusions(Str("KO123")) \cup Confusions(Str("A5O87")) \cup Confusions(Str("MODEL"))
        \cup Confusions(Str("KOO12")) \cup Confusions(Str("1O0O1")) \cup {Str("K1123")}

\* tables of one serial column: the header and at most MaxColumnRows cells
\* below it, with a date header beside it; the rows below are of two cells
\* or, in a ragged table, of one; and tall tables, of more rows below the
\* header than the scan of a column covers, the cells SN-1, SN-2, ...
ColumnCells == {<<>>, Str("SN-1"), Str("SN-01"), Str("SN-02"), Str("Product type")}
ColumnTable(header, cells, ragged) ==
    << <<header, Str("Date")>> >>
    \o [i \in 1..Len(cells) |-> IF ragged THEN <<cells[i]>> ELSE <<cells[i], <<>> >>]
ColumnTables ==
    {Fails}
    \cup {Gives(<<ColumnTable(h, c, rg)>>) :
              h \in {Str("Serial No"), Str("Item")},
              c \in SeqsUpTo(ColumnCells, MaxColumnRows), rg \in BOOLEAN}
    \cup {Gives(<<ColumnTable(Str("Serial No"),
                              [k \in 1..n |-> Str("SN-") \o IntStr(k)], rg)>>) :
              n \in {13, 14, 15, 16}, rg \in BOOLEAN}

\* texts of a label line and a token below it: the nouns that precede the
\* label on its line, the value that follows it (none for a bare label),
\* and the number of lines between the label line and the line of the token
LabelShapes ==
    [nouns : {<<>>, <<"Tube">>, <<"Anode">>, <<"Tube", "Anode">>, <<"Anode", "Tube">>,
              <<"Detector", "Tank", "Generator">>},
     value : {<<>>, Str("AB12345")},
     gap : {0, 1, 8, 9},
     token : {<<>>, Str("CD67890")}]
LabelText(r) ==
    Flat([k \in 1..Len(r.nouns) |-> Str(r.nouns[k]) \o <<" ">>], 1, Len(r.nouns))
    \o Str("Serial No")
    \o (IF r.value = <<>> THEN <<>> ELSE Str(": ") \o r.value)
    \o <<NL>>
    \o Flat([k \in 1..r.gap |-> <<"-", NL>>], 1, r.gap)
    \o r.token

extract_idle ==
    UNCHANGED << pc, force_ocr, text, is_scanned, has_img, data, table_data,
                 is_digital_complete, ocr_text, method, sn_idx, ocr_calls,
                 ai_calls, log, result >>

NormalizeDate(d_str) ==
    /\ call = NoCall
    /\ call' = [fn |-> "normalize_date", args |-> <<d_str>>, ret |-> normalize_date(d_str)]
    /\ extract_idle
    /\ UNCHANGED << mode, spreadsheet_id, existing_links, sheet, downloaded >>
\* the date that normalize_date returned is normalized again, as when a
\* stored date is read back and written again
NormalizeAgain ==
    /\ call.fn = "normalize_date"
    /\ call.args # <<call.ret>>
    /\ call' = [fn |-> "normalize_date", args |-> <<call.ret>>,
                ret |-> normalize_date(call.ret)]
    /\ extract_idle
    /\ UNCHANGED << mode, spreadsheet_id, existing_links, sheet, downloaded >>
ExpandSerialRanges(serial_list) ==
    /\ call = NoCall
    /\ call' = [fn |-> "expand_serial_ranges", args |-> <<serial_list>>,
                ret |-> expand_serial_ranges(serial_list)]
    /\ extract_idle
    /\ UNCHANGED << mode, spreadsheet_id, existing_links, sheet, downloaded >>
IsSerialInRange(target_serial, db_serial_string) ==
    /\ call = NoCall
    /\ call' = [fn |-> "is_serial_in_range",
                args |-> <<target_serial, db_serial_string>>,
                ret |-> is_serial_in_range(target_serial, db_serial_string)]
    /\ extract_idle
    /\ UNCHANGED << mode, spreadsheet_id, existing_links, sheet, downloaded >>
ExtractSerialNumber(txt) ==
    /\ call = NoCall
    /\ call' = [fn |-> "extract_serial_number", args |-> <<txt>>,
                ret |-> extract_serial_number(txt)]
    /\ extract_idle
    /\ UNCHANGED << mode, spreadsheet_id, existing_links, sheet, downloaded >>
ExtractFromTables(tables) ==
    /\ call = NoCall
    /\ call' = [fn |-> "extract_from_tables", args |-> <<tables>>,
                ret |-> extract_from_tables(tables)]
    /\ extract_idle
    /\ UNCHANGED << mode, spreadsheet_id, existing_links, sheet, downloaded >>

UtilsNext ==
    \/ \E d \in DateStrings : NormalizeDate(d)
    \/ NormalizeAgain
    \/ \E r \in RangeShapes : ExpandSerialRanges(<<Item(r)>>)
    \/ \E q \in Queries, v \in StoredValues : IsSerialInRange(q, v)
    \/ \E q \in FuzzyTokens, v \in FuzzyTokens : IsSerialInRange(q, v)
    \/ \E r \in LabelShapes : ExtractSerialNumber(LabelText(r))
    \/ \E tb \in ColumnTables : ExtractFromTables(tb)

\* the functions are called outside of any call of extract_data
UtilsInit == Init /\ ~force_ocr
Utils == UtilsInit /\ [][UtilsNext]_vars

(***************************************************************************)
(* The scans of app.py against one spreadsheet.  A scan fetches the Drive  *)
(* links of the sheet once, then takes the folder batches that             *)
(* walk_folder_structure yields one at a time: the files of a batch whose  *)
(* link is not among existing_links are downloaded and extracted, and      *)
(* their rows appended to the sheet.  A row is modelled by its Drive Link  *)
(* cell, a file by its webViewLink.                                        *)
(***************************************************************************)
MaxSheetRows == 4
\* sheets.py lines 119-126: the links of the data rows
get_existing_drive_links(rows) == {rows[i] : i \in 1..Len(rows)}
\* drive_scanner.py lines 81-96: what one folder lists, each file once; the
\* same file may be listed by another folder of the walk
Batches == {<<>>, <<"f1">>, <<"f2">>, <<"f1", "f2">>}

\* app.py lines 45-57: Start Scan is pressed, with a folder ID; the links
\* are fetched when there is a sheet ID
StartManualScan(sid) ==
    /\ mode = "idle"
    /\ Len(sheet) < MaxSheetRows
    /\ mode' = "manual"
    /\ spreadsheet_id' = sid
    /\ existing_links' = IF sid THEN get_existing_drive_links(sheet) ELSE {}
    /\ downloaded' = <<>>
    /\ UNCHANGED sheet
    /\ extract_idle /\ UNCHANGED call
\* app.py lines 182-193: a round of the monitoring loop begins
StartMonitorLoop(sid) ==
    /\ mode = "idle"
    /\ Len(sheet) < MaxSheetRows
    /\ mode' = "monitor"
    /\ spreadsheet_id' = sid
    /\ existing_links' = IF sid THEN get_existing_drive_links(sheet) ELSE {}
    /\ downloaded' = <<>>
    /\ UNCHANGED sheet
    /\ extract_idle /\ UNCHANGED call
\* app.py lines 109-140 with process_batch, lines 68-104: one folder of the
\* manual scan.  Every new file is downloaded; the files of failed raise in
\* download_file or extract_data and give no row; the rows of the batch are
\* appended in one call, which raises when sync_ok is false.  more: the
\* walk yields another folder
ManualBatch(files, failed, sync_ok, more) ==
    LET New(f) == f \notin existing_links
        Row(f) == f \notin failed
        new_files == SelectSeq(files, New)
        batch_data == SelectSeq(new_files, Row)
    IN  /\ mode = "manual"
        /\ Len(sheet) < MaxSheetRows
        /\ downloaded' = new_files
        /\ sheet' = IF spreadsheet_id /\ sync_ok THEN sheet \o batch_data ELSE sheet
        /\ mode' = IF more THEN "manual" ELSE "idle"
        /\ UNCHANGED << spreadsheet_id, existing_links >>
        /\ extract_idle /\ UNCHANGED call
\* app.py lines 195-239: one folder of the monitoring loop.  Every new file
\* is downloaded; the files of failed raise in download_file, extract_data
\* or append_data_to_sheet; the row of each other file is appended at once
\* and its link added to existing_links, when there is a sheet ID
MonitorBatch(files, failed, more) ==
    LET New(f) == f \notin existing_links
        Row(f) == f \notin failed
        new_files == SelectSeq(files, New)
        synced == IF spreadsheet_id THEN SelectSeq(new_files, Row) ELSE <<>>
    IN  /\ mode = "monitor"
        /\ Len(sheet) < MaxSheetRows
        /\ downloaded' = new_files
        /\ sheet' = sheet \o synced
        /\ existing_links' = existing_links \cup {synced[i] : i \in 1..Len(synced)}
        /\ mode' = IF more THEN "monitor" ELSE "idle"
        /\ UNCHANGED spreadsheet_id
        /\ extract_idle /\ UNCHANGED call

AppNext ==
    \/ \E sid \in BOOLEAN : StartManualScan(sid)
    \/ \E sid \in BOOLEAN : StartMonitorLoop(sid)
    \/ \E files \in Batches, failed \in SUBSET {"f1", "f2"}, sync_ok, more \in BOOLEAN :
           ManualBatch(files, failed, sync_ok, more)
    \/ \E files \in Batches, failed \in SUBSET {"f1", "f2"}, more \in BOOLEAN :
           MonitorBatch(files, failed, more)

App == Init /\ [][AppNext]_vars

(***************************************************************************)
(* The claims about extract_data                                           *)
(***************************************************************************)
\* the digital text is absent or shorter than 10 characters after trimming
Scanned == text = None \/ text = <<>> \/ Len(Strip(text)) < 10
\* the record holds a date and at least one serial
Complete == data.date # None /\ data.date # <<>> /\ Len(data.serial_number) > 0
\* the step that leaves the digital and table stages
LeavesTableStage == pc = "merge" /\ pc' = "final"
Returned == pc = "done"

\* C1: OCR text is requested exactly when force_ocr is set, or the document
\* is scanned, or the record after the digital and table stages is
\* incomplete; the provider is asked nowhere else and at most once per call.
C1_OcrTrigger ==
    [][ /\ ocr_calls' \in {ocr_calls, ocr_calls + 1}
        /\ ocr_calls' <= 1
        /\ ocr_calls' # ocr_calls => LeavesTableStage
        /\ LeavesTableStage =>
              (ocr_calls' = ocr_calls + 1 <=> (force_ocr \/ Scanned \/ ~Complete)) ]_vars
\* OCR ran for an incomplete record alone: not forced, not scanned, no images
C1_Witness ==
    /\ pc = "final" /\ ocr_calls = 1
    /\ ~force_ocr /\ ~Scanned /\ ~has_img /\ ~is_digital_complete

\* C2 as stated: a complete record after the digital and table stages is
\* returned without OCR or AI, whatever force_ocr, scanned and has_images are.
C2_NoEscalationEver ==
    [][ (LeavesTableStage /\ Complete) =>
            (ocr_calls' = ocr_calls /\ ai_calls' = ai_calls) ]_vars
\* C2: a complete record after the digital and table stages that is neither
\* forced nor scanned is returned without OCR or AI, with the method Regex,
\* whether the page holds images or not.
C2_NoEscalationWhenComplete ==
    [][ (LeavesTableStage /\ Complete /\ ~force_ocr /\ ~Scanned) =>
            /\ ocr_calls' = ocr_calls /\ ai_calls' = ai_calls
            /\ data' = data /\ method' = "Regex" ]_vars
\* a complete record of a page with images was returned without OCR
C2_Witness ==
    /\ Returned /\ is_digital_complete /\ has_img /\ ~force_ocr /\ ~Scanned
    /\ ocr_calls = 0 /\ result.method = "Regex"
\* the record holds neither a date nor a serial
Empty == (data.date = None \/ data.date = <<>>) /\ data.serial_number = <<>>

\* C3 as stated: when the digital, table and OCR stages found neither a date
\* nor a serial, the AI fallback has been invoked exactly once by the time
\* extract_data returns.
C3_AiFallbackOnce == (Returned /\ Empty) => ai_calls = 1

\* the step in which OCR was asked for text and gave none
OcrGivesNothing ==
    /\ LeavesTableStage /\ ocr_calls' = ocr_calls + 1
    /\ (ocr_text' = None \/ ocr_text' = <<>>)
\* C4 as stated: when OCR is triggered and gives no text, the method is the
\* Failed tag exactly when the digital and table stages gathered neither a
\* date nor a serial.
C4_FailedIffNoData ==
    [][ OcrGivesNothing => (method' = "OCR (Tesseract) (Failed)" <=> Empty) ]_vars
\* C4: when OCR is triggered and gives no text, the method is the Failed tag
\* exactly when the document is scanned or force_ocr is set, whatever the
\* digital and table stages gathered; otherwise the method stays Regex; the
\* record is left as it was.
C4_FailedIffScannedOrForced ==
    [][ OcrGivesNothing =>
          /\ method' = "OCR (Tesseract) (Failed)" <=> (Scanned \/ force_ocr)
          /\ method' # "OCR (Tesseract) (Failed)" => method' = "Regex"
          /\ data' = data ]_vars
\* OCR gave nothing for a forced call on a readable document that had serials
C4_Witness ==
    /\ pc = "final" /\ ocr_calls = 1 /\ ocr_text = None
    /\ force_ocr /\ ~Scanned /\ ~Empty /\ method = "OCR (Tesseract) (Failed)"

MethodTags == {"Regex", "Regex + OCR", "OCR (Tesseract)", "OCR (Tesseract) (Failed)"}
\* C5: extract_data never raises: whatever the text layer, the image check,
\* the table extraction and OCR do, failing included, no exception leaves
\* the call, a step can be taken until it has returned, and what it returns
\* is a record with a date, a serial_number and one of the method tags.
C5_NeverRaises ==
    /\ pc # "raised"
    /\ ~Returned => ENABLED Next
    /\ Returned =>
          /\ result.method \in MethodTags
          /\ DOMAIN result = {"date", "serial_number", "method"}
          /\ result.serial_number # <<>>
\* the call returned although the text layer, the tables and OCR all failed
C5_Witness ==
    /\ Returned
    /\ log = {"Error extracting PDF text", "Table extraction failed",
              "Tesseract OCR failed"}

\* one round of the merge loop: the candidate, the list before and after
MergeRound == pc = "merge" /\ sn_idx' = sn_idx + 1
Candidate == table_data.serial_number[sn_idx]
TextSerials == ExtractedFrom(text).serial_number
TableSerials == table_data.serial_number
OcrSerials ==
    IF ocr_text = None \/ ocr_text = <<>> THEN <<>>
    ELSE ExtractedFrom(ocr_text).serial_number
Has(list, x) == \E i \in 1..Len(list) : list[i] = x
\* x is one of the newline-joined entries of the string s
HasEntry(s, x) == s # None /\ IsSubstr(<<NL>> \o x \o <<NL>>, <<NL>> \o s \o <<NL>>)
TableStageOver == pc \in {"final", "done"} \/ (pc = "merge" /\ sn_idx > Len(TableSerials))
\* no table serial is related to a text serial or to another table serial
Unrelated ==
    /\ \A i \in 1..Len(TableSerials), j \in 1..Len(TextSerials) :
          ~Related(TableSerials[i], TextSerials[j])
    /\ \A i, j \in 1..Len(TableSerials) :
          i # j => ~Related(TableSerials[i], TableSerials[j])

\* a table serial related to no text serial is kept next to the text
\* serials: the list holds it, or a longer table string that contains it;
\* when no table serial is related to any other serial, the list is the text
\* serials followed by the table serials, all of them entries of the
\* returned serial_number
KeepsUnrelated ==
    /\ \A i \in 1..Len(TableSerials) :
          (\A j \in 1..Len(TextSerials) : ~Related(TableSerials[i], TextSerials[j]))
          => \E k \in 1..Len(data.serial_number) :
                IsSubstr(TableSerials[i], data.serial_number[k])
    /\ Unrelated =>
          /\ data.serial_number = TextSerials \o TableSerials
          /\ Returned =>
                \A k \in 1..Len(data.serial_number) :
                    HasEntry(result.serial_number, data.serial_number[k])
\* the table serial b is not in the list, a string that contains the text
\* serial t is, and b is not an entry of the returned serial_number
Discarded(b, t) ==
    /\ ~Has(data.serial_number, b)
    /\ \E k \in 1..Len(data.serial_number) : IsSubstr(t, data.serial_number[k])
    /\ Returned => ~HasEntry(result.serial_number, b)
ShorterDuplicate(b, t) == IsSubstr(b, t) /\ Len(b) < Len(t)

C8_TableOverridesText ==
    (/\ Returned /\ ocr_calls = 0
     /\ TextSerials # <<>> /\ TableSerials # <<>> /\ Unrelated)
    => /\ result.serial_number = Join(TableSerials, <<NL>>)
       /\ (ExtractedFrom(text).date = None /\ Truthy(table_data.date))
             => result.date = normalize_date(table_data.date)

\* the first occurrence of each entry, in order
FirstOccurrences(list) ==
    Pick(list, {i \in 1..Len(list) : \A j \in 1..(i - 1) : list[j] # list[i]}, 1)
NoRepeat(list) == \A i, j \in 1..Len(list) : i # j => list[i] # list[j]
Canonical(d) ==
    /\ Len(d) = 10
    /\ \A i \in 1..10 : IF i \in {3, 6} THEN d[i] = "/" ELSE d[i] \in Digit
    /\ normalize_date(d) = d
CanonicalOrEmpty(d) == d = None \/ d = <<>> \/ Canonical(d)
\* C10 as stated: what extract_date returns for the digital text, and the
\* date of every record extract_data holds and returns, is null, empty or a
\* canonical DD/MM/YYYY string that normalize_date maps to itself.
C10_CanonicalDate ==
    /\ pc # "start" => CanonicalOrEmpty(ExtractedFrom(text).date)
    /\ CanonicalOrEmpty(data.date)
    /\ Returned => CanonicalOrEmpty(result.date)

(***************************************************************************)
(* The claims about utils.py                                               *)
(***************************************************************************)
NormalizeCall == call.fn = "normalize_date"
\* the date returned by the call before is the argument of this call
Renormalized == NormalizeCall /\ call'.fn = "normalize_date" /\ call'.args = <<call.ret>>

\* C11: normalize_date is idempotent: normalizing what normalize_date
\* returned gives the same string again, for every input.
\* (normalize_date('01/01/0099') is '01/01/99', and of that '01/01/1999'.)
C11_Idempotent == [][Renormalized => call'.ret = call.ret]_vars

\* the string matches no format, neither as it is nor with its separators
\* folded
Unmatched(d_str) ==
    /\ TryFormats(Strip(d_str)) = NoFormat
    /\ TryFormats(FoldSeparators(Strip(d_str))) = NoFormat

\* C12: for a string that matches none of the date formats, neither
\* directly nor after the separator-folding retry, normalize_date returns
\* the input with its leading and trailing whitespace removed and nothing
\* else changed.  (normalize_date('hello world') is 'hello/world'.)
C12_UnmatchedReturnsTrimmed ==
    (NormalizeCall /\ call.args[1] \notin {None, <<>>} /\ Unmatched(call.args[1]))
        => call.ret = Strip(call.args[1])

ExpandCall == call.fn = "expand_serial_ranges"
\* the call expands the one sub-item of shape r
ExpandOf(r) == ExpandCall /\ call.args = << <<Item(r)>> >>
SepOf(r) == IF r.sep = Str("~") THEN "~" ELSE "-"
\* expand_serial_ranges takes the sub-item for a range
Accepts(r) == RangeOf(StartHalf(r), EndHalf(r), SepOf(r)).is_range
\* the numbers the two halves of the sub-item end in
StartNum(r) == ToInt(r.s)
EndNum(r) == ToInt(r.s) + r.delta
\* the tokens of the integers s..e: the prefix of the start half and the
\* number, padded with zeros to the width of the number of the start half
TokensOf(r) ==
    [i \in 1..(EndNum(r) - StartNum(r) + 1) |->
        r.pre \o ZFill(IntStr(StartNum(r) + i - 1), Len(r.s))]

\* C13: a sub-item that expand_serial_ranges accepts as a range from s to
\* e gives exactly e - s + 1 tokens, one for each integer of s..e in
\* ascending order, each the prefix of the start half followed by the
\* number padded with zeros to the width of the start half's number; the
\* first token is the start half.
C13_RangeTokens ==
    \A r \in RangeShapes :
        (ExpandOf(r) /\ Accepts(r))
            => /\ call.ret = TokensOf(r)
               /\ Len(call.ret) = EndNum(r) - StartNum(r) + 1
               /\ call.ret[1] = StartHalf(r)
\* a range of four tokens whose numbers keep the leading zero of the start
C13_Witness ==
    \E r \in RangeShapes :
        /\ ExpandOf(r) /\ Accepts(r)
        /\ r.s = Str("098") /\ r.delta = 3 /\ r.pre = Str("A")
        /\ call.ret = <<Str("A098"), Str("A099"), Str("A100"), Str("A101")>>

\* the sub-item is kept whole or split into its two halves: not expanded
NotExpanded(r) == call.ret \in {<<Item(r)>>, <<StartHalf(r), EndHalf(r)>>}

\* C14: a sub-item whose end number is smaller than its start number, or
\* larger by more than 200, is never expanded, with either separator; so
\* one sub-item gives at most 201 tokens.
C14_NoWideRange ==
    \A r \in RangeShapes :
        ExpandOf(r)
            => /\ (EndNum(r) < StartNum(r) \/ EndNum(r) - StartNum(r) > RangeLimit)
                      => NotExpanded(r)
               /\ Len(call.ret) <= RangeLimit + 1
\* a hyphen range of 202 numbers with the same prefix on both halves is
\* split into its halves
C14_Witness ==
    \E r \in RangeShapes :
        /\ ExpandOf(r)
        /\ r.delta = RangeLimit + 1 /\ r.sep = Str("-") /\ r.pre = Str("A") /\ r.epre = Str("A")
        /\ r.s = Str("100")
        /\ call.ret = <<Str("A100"), Str("A301")>>

InRangeCall == call.fn = "is_serial_in_range"
Query == call.args[1]
Stored == call.args[2]
\* the entries of a stored value: what its newlines, commas and semicolons
\* separate
EntriesOf(v) == LET es == Split(EntrySep, v) IN {Strip(es[i]) : i \in 1..Len(es)}
\* the tokens expand_serial_ranges makes of an entry it takes for a range
IsRangeEntry(e) == e # <<>> /\ expand_serial_ranges(<<e>>) # <<e>>
RangeTokensOf(e) ==
    LET ts == expand_serial_ranges(<<e>>) IN {ts[i] : i \in 1..Len(ts)}

\* C15: is_serial_in_range finds every token of a range that an entry of
\* the stored value stands for, the range written with ~ or with -, also
\* when the stored value holds other entries.
C15_RangeTransparent ==
    (InRangeCall /\ Stored \in StoredValues)
        => \A e \in EntriesOf(Stored) :
               (IsRangeEntry(e) /\ Query \in RangeTokensOf(e)) => call.ret = TRUE
\* A100 is asked for in "A098-A101;B7", where it is not written out
C15_Witness ==
    /\ InRangeCall
    /\ Query = Str("A100") /\ Stored = Str("A098-A101;B7")
    /\ ~IsSubstr(Query, Stored)
    /\ call.ret = TRUE

\* C16: is_serial_in_range does not tell the letter O from the digit 0,
\* on either side: for a query and a stored token of letters and digits
\* that differ only in having O for 0 or 0 for O at some places, it is
\* true, whichever of the two is the query.
C16_FuzzyO ==
    (/\ InRangeCall
     /\ Query \in FuzzyTokens /\ Stored \in FuzzyTokens
     /\ Replace(Query, "O", "0") = Replace(Stored, "O", "0"))
        => call.ret = TRUE
\* KO123 is asked for where K0123 is stored; M0DEL where MODEL is stored
C16_Witness ==
    /\ InRangeCall
    /\ \/ Query = Str("KO123") /\ Stored = Str("K0123")
       \/ Query = Str("M0DEL") /\ Stored = Str("MODEL")
    /\ call.ret = TRUE

(***************************************************************************)
(* The claims about extract_from_tables                                    *)
(***************************************************************************)
TablesCall == call.fn = "extract_from_tables"
\* the call is given the one table of this header, these cells below it and
\* rows of this kind
TableCallOf(h, c, rg) == TablesCall /\ call.args = <<Gives(<<ColumnTable(h, c, rg)>>)>>
ColumnsBelow == SeqsUpTo(ColumnCells, MaxColumnRows)
\* the first empty cell of a column, Len(c) + 1 when it has none
FirstEmpty(c) ==
    IF \E i \in 1..Len(c) : c[i] = <<>>
    THEN CHOOSE i \in 1..Len(c) : c[i] = <<>> /\ \A j \in 1..(i - 1) : c[j] # <<>>
    ELSE Len(c) + 1

\* C17: for a table with a serial header such as "Serial No",
\* extract_from_tables returns under serial_number the non-empty values of
\* the column in the rows below the header, in row order: the header above
\* SN-1, SN-2, SN-3 gives SN-1, SN-2, SN-3.
\* (The header above SN-1 gives no serial_number: SN-1 is of four characters.)
C17_ColumnValues ==
    \A c \in ColumnsBelow :
        (/\ TableCallOf(Str("Serial No"), c, FALSE)
         /\ \A i \in 1..Len(c) : c[i] \notin {<<>>, Str("Product type")})
            => call.ret.value.serial_number = c

\* C18: the scan of the column below a serial header stops at the first
\* empty cell: no value below an empty cell is collected.
\* (The header above SN-01, an empty cell and SN-02 gives SN-01 and SN-02.)
C18_StopsAtEmpty ==
    \A c \in ColumnsBelow :
        TableCallOf(Str("Serial No"), c, FALSE)
            => Len(call.ret.value.serial_number) <= FirstEmpty(c) - 1

\* C19: extract_from_tables never raises, and when an exception occurs
\* while the tables are scanned it returns an empty result, with no date
\* and no serial_number, whatever it had found before.
\* (In a ragged table the serial SN-01 is found before the cell below the
\* date header raises IndexError, and is returned.)
C19_EmptyOnException ==
    TablesCall
        => /\ ~call.ret.raised
           /\ call.ret.logged # {} => call.ret.value = NoData

(***************************************************************************)
(* The claims about extract_data, continued                                *)
(***************************************************************************)
\* the digital and table stages gathered a date or a serial
Gathered == Truthy(data.date) \/ NonEmpty(data.serial_number)

\* C20: when OCR is asked and gives text, the method is Regex + OCR if the
\* digital and table stages had gathered a date or a serial and
\* OCR (Tesseract) if they had gathered nothing; when OCR is not asked the
\* method stays Regex.
C20_MethodTag ==
    [][LeavesTableStage =>
          /\ (ocr_calls' = ocr_calls + 1 /\ Truthy(ocr_text'))
                 => method' = IF Gathered THEN "Regex + OCR" ELSE "OCR (Tesseract)"
          /\ ocr_calls' = ocr_calls => (method = "Regex" /\ method' = "Regex")]_vars
\* a document with no text layer and no table, read by OCR alone
C20_Witness ==
    /\ Returned /\ ocr_calls = 1 /\ Truthy(ocr_text)
    /\ ~Truthy(text) /\ table_data = NoData
    /\ result.method = "OCR (Tesseract)"

\* the step in which OCR was asked for text and gave some
OcrGivesText == LeavesTableStage /\ ocr_calls' = ocr_calls + 1 /\ Truthy(ocr_text')

\* the table stage's rule applied to a list of serials in turn
RECURSIVE TableRuleMerge(_, _)
TableRuleMerge(list, sns) ==
    IF sns = <<>> THEN list
    ELSE TableRuleMerge(merge_serial(list, Head(sns)), Tail(sns))

\* C21 as stated: the OCR serials are merged into the list with the
\* substring rule of the table stage: an OCR serial that is a substring of an
\* entry is not added, and one that contains an entry takes its place.
\* (With Wrong1234 in the text and Wrong1 read by OCR, Wrong1 is appended.)
C21_OcrSubstringDedup ==
    [][ OcrGivesText =>
          data'.serial_number =
              TableRuleMerge(data.serial_number,
                             ExtractedFrom(ocr_text').serial_number) ]_vars


\* C22: a date found by OCR takes the place of the record's date only if
\* the record held no date before the OCR stage or the document is scanned;
\* for a document that is not scanned and whose digital or table stage found
\* a date, the date that extract_data returns is that date, whatever OCR
\* returns.
C22_OcrDate ==
    [][ /\ OcrGivesText =>
              /\ data'.date # data.date =>
                    /\ ~Truthy(data.date) \/ Scanned
                    /\ data'.date = ExtractedFrom(ocr_text').date
              /\ (~Scanned /\ Truthy(data.date)) => data'.date = data.date
        /\ pc = "final" => (data' = data /\ result'.date = data.date) ]_vars
\* OCR read another date than the text layer of a document that is not
\* scanned, and the date of the text layer was returned
C22_Witness ==
    /\ Returned /\ ~Scanned /\ ocr_calls = 1 /\ Truthy(ocr_text)
    /\ Truthy(ExtractedFrom(text).date) /\ Truthy(ExtractedFrom(ocr_text).date)
    /\ ExtractedFrom(ocr_text).date # ExtractedFrom(text).date
    /\ result.date = ExtractedFrom(text).date


\* the step of the table supplement
TableStep == pc = "table" /\ pc' = "merge"

\* C23 as stated: the table date is adopted only when the digital pass found
\* no date, and the date adopted is the normalize_date form of the table's
\* date string; a date of the digital pass is never replaced by the table
\* date.
\* (The table date 15-01-2025, which normalize_date turns into 15/01/2025,
\* is run through extract_date, which finds no date in it.)
C23_TableDate ==
    [][ TableStep =>
          IF Truthy(table_data'.date) /\ ~Truthy(data.date)
          THEN data'.date = normalize_date(table_data'.date)
          ELSE data'.date = data.date ]_vars


\* the table the call was given, and the cell of its first column in row r
CalledTable == call.args[1].v[1]
ColumnCell(r) == Strip(PyStr(CalledTable[r][1]))
\* a value the scan of a column keeps: longer than 4 characters and holding
\* none of the noise words of the tables
Collectable(val) == Len(val) > 4 /\ ~ContainsAny(noise_col_vals, val)
\* the rows i+1..i+14 below a header in row 1, as far as the table goes
RowsBelow == {r \in 2..15 : r <= Len(CalledTable)}

C25_OneRetry ==
    NormalizeCall =>
        /\ format_loops(call.args[1]) <= 2
        /\ format_loops(call.args[1]) = 2 =>
              /\ TryFormats(Strip(call.args[1])) = NoFormat
              /\ format_loops(FoldSeparators(Strip(call.args[1]))) = 1
        /\ call.ret = normalize_date(call.args[1])
\* a string of separators that is no date was folded, tried once more and
\* returned folded
C25_Witness ==
    /\ NormalizeCall
    /\ call.args = <<Str("a.b - c")>>
    /\ format_loops(call.args[1]) = 2
    /\ call.ret = Str("a/b///c")


\* the prefixes of the two halves differ, also with O read as 0, and the end
\* half has a prefix
OtherPrefix(r) ==
    r.epre # <<>> /\ Replace(r.epre, "0", "O") # Replace(r.pre, "0", "O")

\* C26: a sub-item that expand_serial_ranges does not take for a range is
\* emitted unchanged as one token when its separator is ~; when it is -, it
\* is emitted as its two halves, in order, if both are longer than 3
\* characters, and unchanged as one token otherwise; halves of different
\* prefixes, as in "A100 - B200", are never taken for a range.
C26_RejectedRange ==
    \A r \in RangeShapes :
        ExpandOf(r) =>
            /\ ~Accepts(r) =>
                  call.ret = IF SepOf(r) = "~" THEN <<Item(r)>>
                             ELSE IF Len(StartHalf(r)) > 3 /\ Len(EndHalf(r)) > 3
                             THEN <<StartHalf(r), EndHalf(r)>>
                             ELSE <<Item(r)>>
            /\ OtherPrefix(r) => ~Accepts(r)
\* "A100 - B200" gives A100 and B200
C26_Witness ==
    /\ ExpandCall
    /\ call.args = << <<Str("A100 - B200")>> >>
    /\ call.ret = <<Str("A100"), Str("B200")>>


\* the shape whose text the call was given
CalledShape(r) ==
    /\ call.fn = "extract_serial_number"
    /\ call.args = <<LabelText(r)>>
\* C27: in the same-line pass, a value whose label is preceded on its line,
\* within 30 characters, by several domain nouns is annotated with the
\* nearest of them, as "VALUE (Noun)"; with no noun before the label the
\* value is emitted as it is.
\* (The nouns are tried in the order of context_nouns, and the first of the
\* list that occurs wins: "Tube Anode Serial No: AB12345" gives
\* "AB12345 (Tube)".)
C27_NearestNoun ==
    \A r \in LabelShapes :
        CalledShape(r) /\ r.value # <<>> =>
            /\ Len(call.ret) >= 1
            /\ call.ret[1] = IF r.nouns = <<>> THEN r.value
                             ELSE r.value \o Str(" (") \o Str(r.nouns[Len(r.nouns)]) \o Str(")")

\* C28: the columnar pass scans the lines below a bare label only: a line
\* whose label has a value on the same line does not make the tokens of the
\* following lines serial numbers, and a token more than 9 lines below a
\* label is never collected for it.
\* (The second pass scans below every line that holds a label word:
\* "Serial No: AB12345" followed by the line "CD67890" gives both.)
C28_BareLabelScan ==
    \A r \in LabelShapes :
        CalledShape(r) /\ r.token # <<>> =>
            (Has(call.ret, r.token) => r.value = <<>> /\ r.gap < 9)


\* the query of the call is one of the entries of the stored value: a piece
\* of it between newlines, commas and semicolons, trimmed and not empty
QueryIsEntry ==
    /\ call.fn = "is_serial_in_range"
    /\ call.args[1] # <<>>
    /\ call.args[2] # None
    /\ With([raw_list \in {Split(EntrySep, call.args[2])} |->
           \E i \in 1..Len(raw_list) : Strip(raw_list[i]) = call.args[1]])
\* C29: every entry of a stored value is found in it, whether or not the
\* stored value holds a ~ elsewhere: the general path accepts what the fast
\* path accepts for the same entry.
\* (With a ~ in the stored value the entries are expanded first, and the
\* entry A098-A101 is no part of any of A098, A099, A100, A101.)
C29_EntryFound ==
    QueryIsEntry => call.ret = TRUE


\* no Drive link is carried by two rows
LinkOnce(rows) == \A i, j \in 1..Len(rows) : i # j => rows[i] # rows[j]
\* C30: across the manual scans and the rounds of the monitoring loop that
\* run against the spreadsheet, a folder batch downloads no file whose Drive
\* link is already in the sheet, and no two rows of the sheet carry the same
\* link, also when one file is listed by more than one folder of a scan.
\* (The manual scan fetches existing_links once and never adds to it: a file
\* listed by two folders of one scan is downloaded for each and gets two
\* rows.)
C30_LinkOnce ==
    [][ mode # "idle" /\ spreadsheet_id =>
            /\ \A k \in 1..Len(downloaded') : ~Has(sheet, downloaded'[k])
            /\ LinkOnce(sheet') ]_vars

=============================================================================
